---- MODULE Spec2Model ----
(***************************************************************************)
(* A model of the ARO admission controller's decision engine: the workload *)
(* entry point handleWhitelist (normalizer, whitelist gate, compliance     *)
(* evaluator) and the policy-object entry point handleSCC (protection      *)
(* guard), both ending in sendResult.  Strings that the code inspects      *)
(* character by character (image names, node names, regular expressions)   *)
(* are sequences of one-character strings; all other strings are atoms.    *)
(***************************************************************************)
EXTENDS Integers, Sequences, FiniteSets, TLC

VARIABLES
    restricted,         \* ac.restricted: the baseline policy
    whitelistedImages,  \* ac.whitelistedImages: compiled patterns
    protectedSCCs,      \* ac.protectedSCCs: name -> protected template
    exchange,           \* the HTTP exchange last served, or Idle
    inflight,           \* connection -> the exchange running on it
    setup,              \* the goroutine of setupAdmissionController
    cluster             \* what the API server lists to that goroutine

vars == <<restricted, whitelistedImages, protectedSCCs, exchange, inflight, setup, cluster>>

(***************************************************************************)
(* Bounds of the model.                                                    *)
(***************************************************************************)
MaxContainers == 2      \* longest spec.containers sequence drawn
MaxRemoved == 2         \* most principals a candidate drops from a template
MaxInFlight == 2        \* most requests being served at the same time
MaxPods == 4            \* most pods the listing under the selector holds
MaxServices == 2        \* most services the listing under the selector holds

(***************************************************************************)
(* Go values.                                                              *)
(***************************************************************************)
\* A Go slice: nil and empty-but-allocated are different values for
\* reflect.DeepEqual, the same for range and len.
NilSlice == [isNil |-> TRUE, elems |-> <<>>]
Slice(s) == [isNil |-> FALSE, elems |-> s]

\* A Go map[string]string as a set of <<key, value>> pairs; indexing a
\* missing key (or a nil map) yields the zero value "".
MapGet(m, k) == IF \E p \in m : p[1] = k THEN (CHOOSE p \in m : p[1] = k)[2] ELSE ""

\* strings.HasPrefix on character sequences.
HasPrefix(s, prefix) ==
    /\ Len(s) >= Len(prefix)
    /\ \A i \in 1..Len(prefix) : s[i] = prefix[i]

\* HTTP status codes (net/http).
StatusOK == 200
StatusBadRequest == 400
StatusNotFound == 404
StatusMethodNotAllowed == 405
StatusUnsupportedMediaType == 415
StatusInternalServerError == 500
StatusNotImplemented == 501

(***************************************************************************)
(* Regular expressions.  A compiled pattern is a literal with optional ^   *)
(* and $ anchors and an optional (?i) flag; MatchString reports whether    *)
(* the pattern matches anywhere in the string, as regexp.MatchString does. *)
(***************************************************************************)
ToLower(c) == IF c = "W" THEN "w" ELSE IF c = "R" THEN "r" ELSE c

CharEq(rx, a, b) == IF rx.foldCase THEN ToLower(a) = ToLower(b) ELSE a = b

MatchAt(rx, s, off) ==
    /\ off + Len(rx.lit) <= Len(s)
    /\ rx.anchorStart => off = 0
    /\ rx.anchorEnd => off + Len(rx.lit) = Len(s)
    /\ \A k \in 1..Len(rx.lit) : CharEq(rx, rx.lit[k], s[off + k])

MatchString(rx, s) == \E off \in 0..Len(s) : MatchAt(rx, s, off)

Anchored(lit) == [anchorStart |-> TRUE, anchorEnd |-> TRUE, lit |-> lit, foldCase |-> FALSE]

(***************************************************************************)
(* Workload objects.                                                       *)
(***************************************************************************)
MasterPrefix == <<"m", "a", "s", "t", "e", "r", "-">>
InfraPrefix == <<"i", "n", "f", "r", "a", "-">>

NodeRoleMaster == "node-role.kubernetes.io/master"
NodeRoleInfra == "node-role.kubernetes.io/infra"

\* imageIsWhitelisted with the loop's result overwritten on every turn: only
\* the last pattern decides.
imageIsWhitelisted_LastPatternOnly(image, patterns) ==
    Len(patterns) > 0 /\ MatchString(patterns[Len(patterns)], image)

\* imageIsWhitelisted that returns the first pattern's answer from inside
\* the loop.
imageIsWhitelisted_FirstPatternOnly(image, patterns) ==
    Len(patterns) > 0 /\ MatchString(patterns[1], image)

\* imageIsWhitelisted: some pattern matches the image.
imageIsWhitelisted(image, patterns) ==
    \E i \in 1..Len(patterns) : MatchString(patterns[i], image)

\* The loop of podSpecIsWhitelisted over containers followed by init
\* containers: FALSE at the first image that is not whitelisted.
RECURSIVE AllImagesWhitelisted(_, _, _)
AllImagesWhitelisted(containers, i, patterns) ==
    IF i > Len(containers) THEN TRUE
    ELSE IF ~imageIsWhitelisted(containers[i].Image, patterns) THEN FALSE
    ELSE AllImagesWhitelisted(containers, i + 1, patterns)

\* podSpecIsWhitelisted that forgets to append the init containers.
podSpecIsWhitelisted_ContainersOnly(spec, patterns) ==
    IF /\ ~spec.NodeSelector.isNil
       /\ \/ MapGet(spec.NodeSelector.entries, NodeRoleMaster) = "true"
          \/ MapGet(spec.NodeSelector.entries, NodeRoleInfra) = "true"
    THEN TRUE
    ELSE IF HasPrefix(spec.NodeName, MasterPrefix) \/ HasPrefix(spec.NodeName, InfraPrefix)
    THEN TRUE
    ELSE AllImagesWhitelisted(spec.Containers, 1, patterns)

\* podSpecIsWhitelisted without the node-selector and node-name rules.
podSpecIsWhitelisted_NoNodeRules(spec, patterns) ==
    AllImagesWhitelisted(spec.Containers \o spec.InitContainers, 1, patterns)

podSpecIsWhitelisted(spec, patterns) ==
    IF /\ ~spec.NodeSelector.isNil
       /\ \/ MapGet(spec.NodeSelector.entries, NodeRoleMaster) = "true"
          \/ MapGet(spec.NodeSelector.entries, NodeRoleInfra) = "true"
    THEN TRUE
    ELSE IF HasPrefix(spec.NodeName, MasterPrefix) \/ HasPrefix(spec.NodeName, InfraPrefix)
    THEN TRUE
    ELSE AllImagesWhitelisted(spec.Containers \o spec.InitContainers, 1, patterns)

(***************************************************************************)
(* The compliance evaluator.  CreateProviderFromConstraint and             *)
(* AssignSecurityContext are library code outside the handlers; they are   *)
(* modelled from the design's section 4.3.                                 *)
(***************************************************************************)
\* Namespaces that carry the uid-range and mcs annotations the provider
\* needs; the provider cannot be built for any other namespace.
AnnotatedNamespaces == {"default"}

CreateProviderFromConstraint(namespace, scc) ==
    [err |-> namespace \notin AnnotatedNamespaces, scc |-> scc]

PrivilegedViolation(list, i) ==
    [list |-> list, index |-> i, field |-> "securityContext.privileged",
     detail |-> "Privileged containers are not allowed"]

HostNetworkViolation ==
    [list |-> "", index |-> 0, field |-> "securityContext.hostNetwork",
     detail |-> "Host network is not allowed to be used"]

\* One violation per privileged container of a list, by ascending index.
RECURSIVE PrivilegedViolations(_, _, _)
PrivilegedViolations(list, containers, i) ==
    IF i > Len(containers) THEN <<>>
    ELSE (IF containers[i].Privileged = "true"
          THEN <<PrivilegedViolation(list, i - 1)>> ELSE <<>>)
         \o PrivilegedViolations(list, containers, i + 1)

AssignSecurityContext(provider, pod) ==
    (IF ~provider.scc.AllowPrivilegedContainer
     THEN PrivilegedViolations("containers", pod.Spec.Containers, 1)
          \o PrivilegedViolations("initContainers", pod.Spec.InitContainers, 1)
     ELSE <<>>)
    \o (IF pod.Spec.HostNetwork /\ ~provider.scc.AllowHostNetwork
        THEN <<HostNetworkViolation>> ELSE <<>>)

\* validatePodAgainstSCC that builds the provider and then returns no
\* violations instead of the evaluator's.
validatePodAgainstSCC_DropsViolations(pod, namespace) ==
    IF podSpecIsWhitelisted(pod.Spec, whitelistedImages)
    THEN [errs |-> <<>>, err |-> FALSE]
    ELSE LET provider == CreateProviderFromConstraint(namespace, restricted)
         IN  IF provider.err
             THEN [errs |-> <<>>, err |-> TRUE]
             ELSE [errs |-> <<>>, err |-> FALSE]

\* validatePodAgainstSCC that builds the provider without the namespace.
validatePodAgainstSCC_NoNamespace(pod, namespace) ==
    IF podSpecIsWhitelisted(pod.Spec, whitelistedImages)
    THEN [errs |-> <<>>, err |-> FALSE]
    ELSE LET provider == CreateProviderFromConstraint("", restricted)
         IN  IF provider.err
             THEN [errs |-> <<>>, err |-> TRUE]
             ELSE [errs |-> AssignSecurityContext(provider, pod), err |-> FALSE]

\* validatePodAgainstSCC: (violations, error).
validatePodAgainstSCC(pod, namespace) ==
    IF podSpecIsWhitelisted(pod.Spec, whitelistedImages)
    THEN [errs |-> <<>>, err |-> FALSE]
    ELSE LET provider == CreateProviderFromConstraint(namespace, restricted)
         IN  IF provider.err
             THEN [errs |-> <<>>, err |-> TRUE]
             ELSE [errs |-> AssignSecurityContext(provider, pod), err |-> FALSE]

(***************************************************************************)
(* Responses.                                                              *)
(***************************************************************************)
NoReview == [present |-> FALSE]

\* http.Error: a status line and a text body, no AdmissionReview.
HttpError(code) == [status |-> code, review |-> NoReview, panicked |-> FALSE]

\* A handler that panics before writing anything.
Panic == [status |-> 0, review |-> NoReview, panicked |-> TRUE]

\* errors.NewAggregate / ErrorList.ToAggregate: nil for an empty list.
NilAggregate == [isNil |-> TRUE, errs |-> <<>>]
NewAggregate(errlist) ==
    IF Len(errlist) = 0 THEN NilAggregate ELSE [isNil |-> FALSE, errs |-> errlist]

\* Aggregate.Error(): the errors' messages joined, in the aggregate's order,
\* with a fixed separator between every two of them.  The text is kept as
\* the sequence of its pieces.
Separator == [sep |-> ", "]

RECURSIVE Join(_, _)
Join(errlist, i) ==
    IF i > Len(errlist) THEN <<>>
    ELSE (IF i > 1 THEN <<Separator>> ELSE <<>>) \o <<errlist[i]>> \o Join(errlist, i + 1)

AggregateError(agg) == Join(agg.errs, 1)

\* sendResult that puts only the first error's message in the result.
sendResult_FirstErrorOnly(errs, uid) ==
    LET failure == ~errs.isNil /\ Len(errs.errs) > 0
        result == IF failure
                  THEN [Status |-> "Failure", Message |-> <<errs.errs[1]>>]
                  ELSE [Status |-> "Success", Message |-> <<>>]
    IN  [status |-> StatusOK,
         review |-> [present |-> TRUE, UID |-> uid,
                     Allowed |-> (result.Status = "Success"), Result |-> result],
         panicked |-> FALSE]

\* sendResult that leaves the response's UID at its zero value.
sendResult_NoUID(errs, uid) ==
    LET failure == ~errs.isNil /\ Len(errs.errs) > 0
        result == IF failure
                  THEN [Status |-> "Failure", Message |-> AggregateError(errs)]
                  ELSE [Status |-> "Success", Message |-> <<>>]
    IN  [status |-> StatusOK,
         review |-> [present |-> TRUE, UID |-> "",
                     Allowed |-> (result.Status = "Success"), Result |-> result],
         panicked |-> FALSE]

\* sendResult: the AdmissionReview written with status 200.
sendResult(errs, uid) ==
    LET failure == ~errs.isNil /\ Len(errs.errs) > 0
        result == IF failure
                  THEN [Status |-> "Failure", Message |-> AggregateError(errs)]
                  ELSE [Status |-> "Success", Message |-> <<>>]
    IN  [status |-> StatusOK,
         review |-> [present |-> TRUE, UID |-> uid,
                     Allowed |-> (result.Status = "Success"), Result |-> result],
         panicked |-> FALSE]

\* checkPodSpec that does not look at the error of validatePodAgainstSCC.
checkPodSpec_IgnoresErr(podSpec, oMeta, namespace, uid) ==
    LET pod == [Spec |-> podSpec, ObjectMeta |-> oMeta]
        v == validatePodAgainstSCC(pod, namespace)
    IN  sendResult(NewAggregate(v.errs), uid)

\* checkPodSpec: copy the template into a fresh pod, validate, respond.
checkPodSpec(podSpec, oMeta, namespace, uid) ==
    LET pod == [Spec |-> podSpec, ObjectMeta |-> oMeta]
        v == validatePodAgainstSCC(pod, namespace)
    IN  IF v.err THEN HttpError(StatusInternalServerError)
        ELSE sendResult(NewAggregate(v.errs), uid)

\* What AssignSecurityContext leaves in the pod it is given: the security
\* context of every container filled in, an unset privileged flag set to
\* false.
DefaultFilledContainers(containers) ==
    [i \in 1..Len(containers) |->
        [containers[i] EXCEPT !.Privileged = IF @ = "nil" THEN "false" ELSE @]]

DefaultFilled(spec) ==
    [spec EXCEPT !.Containers = DefaultFilledContainers(@),
                 !.InitContainers = DefaultFilledContainers(@)]

\* checkPodSpec that assigns the spec it is given to the pod instead of
\* copying it deep: the containers of the pod are the caller's.
checkPodSpecObjects_SharesContainers(podSpec, namespace) ==
    LET evaluated == /\ ~podSpecIsWhitelisted(podSpec, whitelistedImages)
                     /\ ~CreateProviderFromConstraint(namespace, restricted).err
        after == IF evaluated THEN DefaultFilled(podSpec) ELSE podSpec
    IN  [caller |-> after, pod |-> after]

\* The objects checkPodSpec leaves behind: the spec its caller holds and
\* the pod it built with DeepCopyInto, which is the one the evaluator
\* fills in.
checkPodSpecObjects(podSpec, namespace) ==
    LET evaluated == /\ ~podSpecIsWhitelisted(podSpec, whitelistedImages)
                     /\ ~CreateProviderFromConstraint(namespace, restricted).err
    IN  [caller |-> podSpec, pod |-> IF evaluated THEN DefaultFilled(podSpec) ELSE podSpec]

(***************************************************************************)
(* Requests and the workload entry point.                                  *)
(***************************************************************************)
NilRequest == [present |-> FALSE]

\* getAdmissionReviewRequest: (request, errorcode).
\* A body that is the JSON null leaves reviewIncoming nil, and reading its
\* Request panics.
getAdmissionReviewRequest(r) ==
    IF r.Method # "POST"
    THEN [req |-> NilRequest, errorcode |-> StatusMethodNotAllowed, panicked |-> FALSE]
    ELSE IF r.ContentType # "application/json"
    THEN [req |-> NilRequest, errorcode |-> StatusUnsupportedMediaType, panicked |-> FALSE]
    ELSE IF ~r.Body.decodable
    THEN [req |-> NilRequest, errorcode |-> StatusBadRequest, panicked |-> FALSE]
    ELSE IF r.Body.null
    THEN [req |-> NilRequest, errorcode |-> 0, panicked |-> TRUE]
    ELSE [req |-> r.Body.Request, errorcode |-> 0, panicked |-> FALSE]

\* The kinds of the unpackers table of handleWhitelist.
UnpackerKinds == {"Pod", "DaemonSet", "ReplicaSet", "StatefulSet", "Job", "CronJob",
                  "DeploymentConfig", "Deployment"}

\* unpackers that take the namespace from the metadata they return, the
\* template's, instead of the enclosing object's.
unpackers_TemplateNamespace(kind, o) ==
    CASE kind = "Pod" ->
           [spec |-> o.Spec, meta |-> o.ObjectMeta, namespace |-> o.ObjectMeta.Namespace]
      [] kind = "CronJob" ->
           [spec |-> o.Spec.JobTemplate.Spec.Template.Spec,
            meta |-> o.Spec.JobTemplate.Spec.Template.ObjectMeta,
            namespace |-> o.Spec.JobTemplate.Spec.Template.ObjectMeta.Namespace]
      [] kind \in {"DaemonSet", "ReplicaSet", "StatefulSet", "Job",
                   "DeploymentConfig", "Deployment"} ->
           [spec |-> o.Spec.Template.Spec, meta |-> o.Spec.Template.ObjectMeta,
            namespace |-> o.Spec.Template.ObjectMeta.Namespace]

\* unpackers[kind](o): (spec, meta, namespace) from the kind's own location.
unpackers(kind, o) ==
    CASE kind = "Pod" ->
           [spec |-> o.Spec, meta |-> o.ObjectMeta, namespace |-> o.Namespace]
      [] kind = "CronJob" ->
           [spec |-> o.Spec.JobTemplate.Spec.Template.Spec,
            meta |-> o.Spec.JobTemplate.Spec.Template.ObjectMeta,
            namespace |-> o.Namespace]
      [] kind \in {"DaemonSet", "ReplicaSet", "StatefulSet", "Job",
                   "DeploymentConfig", "Deployment"} ->
           [spec |-> o.Spec.Template.Spec, meta |-> o.Spec.Template.ObjectMeta,
            namespace |-> o.Namespace]

\* handleWhitelist that answers every failure of getAdmissionReviewRequest
\* with 415, as handleSCC does.
handleWhitelist_Always415(r) ==
    LET got == getAdmissionReviewRequest(r)
        req == got.req
    IN  IF got.panicked THEN Panic
        ELSE IF got.errorcode # 0 THEN HttpError(StatusUnsupportedMediaType)
        ELSE IF ~req.present THEN Panic
        ELSE IF req.UID = "" \/ req.Kind.Version = "" \/ req.Kind.Kind = ""
        THEN HttpError(StatusBadRequest)
        ELSE IF req.Object.decodeErr THEN HttpError(StatusBadRequest)
        ELSE LET o == req.Object.obj
             IN  IF o.Kind \notin UnpackerKinds
                 THEN [status |-> StatusNotImplemented, review |-> NoReview,
                       panicked |-> TRUE]
                 ELSE LET t == unpackers(o.Kind, o)
                      IN  checkPodSpec(t.spec, t.meta, t.namespace, req.UID)

handleWhitelist(r) ==
    LET got == getAdmissionReviewRequest(r)
        req == got.req
    IN  IF got.panicked THEN Panic
        ELSE IF got.errorcode # 0 THEN HttpError(got.errorcode)
        ELSE IF ~req.present THEN Panic
        ELSE IF req.UID = "" \/ req.Kind.Version = "" \/ req.Kind.Kind = ""
        THEN HttpError(StatusBadRequest)
        ELSE IF req.Object.decodeErr THEN HttpError(StatusBadRequest)
        ELSE LET o == req.Object.obj
             IN  IF o.Kind \notin UnpackerKinds
                 THEN \* 501 is written, then the missing function is called
                      [status |-> StatusNotImplemented, review |-> NoReview,
                       panicked |-> TRUE]
                 ELSE LET t == unpackers(o.Kind, o)
                      IN  checkPodSpec(t.spec, t.meta, t.namespace, req.UID)

\* The decoded object's template after handleWhitelist, next to the pod
\* the handler built from it, when the handler gets as far as checkPodSpec.
NoObjects == [built |-> FALSE]

handleWhitelistObjects(r) ==
    LET got == getAdmissionReviewRequest(r)
        req == got.req
    IN  IF got.panicked \/ got.errorcode # 0 THEN NoObjects
        ELSE IF ~req.present THEN NoObjects
        ELSE IF req.UID = "" \/ req.Kind.Version = "" \/ req.Kind.Kind = "" THEN NoObjects
        ELSE IF req.Object.decodeErr THEN NoObjects
        ELSE LET o == req.Object.obj
             IN  IF o.Kind \notin UnpackerKinds THEN NoObjects
                 ELSE LET t == unpackers(o.Kind, o)
                          objects == checkPodSpecObjects(t.spec, t.namespace)
                      IN  [built |-> TRUE, caller |-> objects.caller, pod |-> objects.pod]

(***************************************************************************)
(* Security context constraints and the protected templates.               *)
(***************************************************************************)
OwnedBySyncPod == "azure.openshift.io/owned-by-sync-pod"

\* metav1.ObjectMeta{}: the zero value.
ZeroObjectMeta == [Name |-> "", Labels |-> {}, ResourceVersion |-> ""]

NilPtr == [isNil |-> TRUE, value |-> 0]
Ptr(v) == [isNil |-> FALSE, value |-> v]

VolumesRestricted ==
    Slice(<<"configMap", "downwardAPI", "emptyDir", "persistentVolumeClaim",
            "projected", "secret">>)
VolumesHostAccess ==
    Slice(<<"configMap", "downwardAPI", "emptyDir", "hostPath",
            "persistentVolumeClaim", "projected", "secret">>)
VolumesHostMount ==
    Slice(<<"configMap", "downwardAPI", "emptyDir", "hostPath", "nfs",
            "persistentVolumeClaim", "projected", "secret">>)
DropAll == Slice(<<"KILL", "MKNOD", "SETUID", "SETGID">>)

\* A SecurityContextConstraints literal of InitProtectedSCCs; every field
\* the literals leave out has its zero value.
SCCLiteral(priority, privileged, drop, caps, volumes, hostNetPorts, hostPidIpc, fsGroup, groups, users, runAsUser, seLinux, supplemental, wildcards) ==
    [TypeMeta |-> "",
     ObjectMeta |-> ZeroObjectMeta,
     Priority |-> priority,
     AllowPrivilegedContainer |-> privileged,
     DefaultAddCapabilities |-> NilSlice,
     RequiredDropCapabilities |-> drop,
     AllowedCapabilities |-> caps,
     Volumes |-> volumes,
     AllowHostNetwork |-> hostNetPorts,
     AllowHostPorts |-> hostNetPorts,
     AllowHostPID |-> hostPidIpc,
     AllowHostIPC |-> hostPidIpc,
     AllowPrivilegeEscalation |-> Ptr(1),   \* toBoolPtr(true)
     FSGroup |-> fsGroup,
     Groups |-> groups,
     Users |-> users,
     RunAsUser |-> runAsUser,
     SELinuxContext |-> seLinux,
     SupplementalGroups |-> supplemental,
     SeccompProfiles |-> wildcards,
     AllowedUnsafeSysctls |-> wildcards]

InitProtectedSCCs ==
    ("anyuid" :>
        SCCLiteral(Ptr(10), FALSE, Slice(<<"MKNOD">>), NilSlice, VolumesRestricted,
                   FALSE, FALSE, "RunAsAny",
                   Slice(<<"system:cluster-admins">>), NilSlice,
                   "RunAsAny", "MustRunAs", "RunAsAny", NilSlice))
    @@ ("hostaccess" :>
        SCCLiteral(NilPtr, FALSE, DropAll, NilSlice, VolumesHostAccess,
                   TRUE, TRUE, "MustRunAs",
                   Slice(<<>>), NilSlice,
                   "MustRunAsRange", "MustRunAs", "RunAsAny", NilSlice))
    @@ ("hostmount-anyuid" :>
        SCCLiteral(NilPtr, FALSE, Slice(<<"MKNOD">>), NilSlice, VolumesHostMount,
                   FALSE, FALSE, "RunAsAny",
                   Slice(<<>>),
                   Slice(<<"system:serviceaccount:openshift-azure-monitoring:etcd-metrics",
                           "system:serviceaccount:openshift-infra:pv-recycler-controller",
                           "system:serviceaccount:kube-service-catalog:service-catalog-apiserver">>),
                   "RunAsAny", "MustRunAs", "RunAsAny", NilSlice))
    @@ ("hostnetwork" :>
        SCCLiteral(NilPtr, FALSE, DropAll, NilSlice, VolumesRestricted,
                   TRUE, FALSE, "MustRunAs",
                   Slice(<<>>), NilSlice,
                   "MustRunAsRange", "MustRunAs", "MustRunAs", NilSlice))
    @@ ("nonroot" :>
        SCCLiteral(NilPtr, FALSE, DropAll, NilSlice, VolumesRestricted,
                   FALSE, FALSE, "RunAsAny",
                   Slice(<<>>), NilSlice,
                   "MustRunAsNonRoot", "MustRunAs", "RunAsAny", NilSlice))
    @@ ("privileged" :>
        SCCLiteral(NilPtr, TRUE, NilSlice, Slice(<<"*">>), Slice(<<"*">>),
                   TRUE, TRUE, "RunAsAny",
                   Slice(<<"system:cluster-admins", "system:nodes", "system:masters">>),
                   Slice(<<"system:admin",
                           "system:serviceaccount:openshift-infra:build-controller",
                           "system:serviceaccount:openshift-etcd:etcd-backup",
                           "system:serviceaccount:openshift-azure-logging:log-analytics-agent",
                           "system:serviceaccount:kube-system:sync">>),
                   "RunAsAny", "RunAsAny", "RunAsAny", Slice(<<"*">>)))
    @@ ("restricted" :>
        SCCLiteral(NilPtr, FALSE, DropAll, NilSlice, VolumesRestricted,
                   FALSE, FALSE, "MustRunAs",
                   Slice(<<"system:authenticated">>), Slice(<<>>),
                   "MustRunAsRange", "MustRunAs", "RunAsAny", NilSlice))

\* getRestrictedSCC: the bootstrap policy named "restricted".
getRestrictedSCC == InitProtectedSCCs["restricted"]

(***************************************************************************)
(* The protection guard.                                                   *)
(***************************************************************************)
LabelError == [text |-> "Protected SCC has to have the owned-by-sync-pod label set to true",
               principal |-> ""]
RemovalOfGroup(g) == [text |-> "Removal of Group %s from SCC is not allowed", principal |-> g]
RemovalOfUser(u) == [text |-> "Removal of User %s from SCC is not allowed", principal |-> u]
ModificationError ==
    [text |-> "Modification of fields other than Users and Groups in the SCC is not allowed",
     principal |-> ""]

\* The inner loop stopping one element early.
RECURSIVE Found_SkipsLast(_, _, _)
Found_SkipsLast(principal, list, j) ==
    IF j >= Len(list) THEN FALSE
    ELSE IF principal = list[j] THEN TRUE
    ELSE Found_SkipsLast(principal, list, j + 1)

\* The inner loop of verifySCC: is the template's principal in the list?
RECURSIVE Found(_, _, _)
Found(principal, list, j) ==
    IF j > Len(list) THEN FALSE
    ELSE IF principal = list[j] THEN TRUE
    ELSE Found(principal, list, j + 1)

\* The outer loop over the template's groups: one error for the first group
\* that is not found, then break.
RECURSIVE GroupsLoop(_, _, _)
GroupsLoop(templateGroups, sccGroups, i) ==
    IF i > Len(templateGroups) THEN <<>>
    ELSE IF ~Found(templateGroups[i], sccGroups, 1)
    THEN <<RemovalOfGroup(templateGroups[i])>>
    ELSE GroupsLoop(templateGroups, sccGroups, i + 1)

\* The loop over the template's users without its break: one error for
\* every user that is not found.
RECURSIVE UsersLoop_ReportsAll(_, _, _)
UsersLoop_ReportsAll(templateUsers, sccUsers, i) ==
    IF i > Len(templateUsers) THEN <<>>
    ELSE (IF ~Found(templateUsers[i], sccUsers, 1)
          THEN <<RemovalOfUser(templateUsers[i])>> ELSE <<>>)
         \o UsersLoop_ReportsAll(templateUsers, sccUsers, i + 1)

\* The outer loop over the template's users, likewise.
RECURSIVE UsersLoop(_, _, _)
UsersLoop(templateUsers, sccUsers, i) ==
    IF i > Len(templateUsers) THEN <<>>
    ELSE IF ~Found(templateUsers[i], sccUsers, 1)
    THEN <<RemovalOfUser(templateUsers[i])>>
    ELSE UsersLoop(templateUsers, sccUsers, i + 1)

\* The template copy with its principals left in.
LocalSccTemplate_KeepsPrincipals(sccTemplate) == sccTemplate

\* The copy of the template that verifySCC compares.
LocalSccTemplate(sccTemplate) ==
    [sccTemplate EXCEPT !.Users = Slice(<<>>), !.Groups = Slice(<<>>)]

\* The candidate copy with its principals left in.
LocalScc_KeepsPrincipals(scc) == [scc EXCEPT !.ObjectMeta = ZeroObjectMeta]

\* The copy of the candidate that verifySCC compares.
LocalScc(scc) ==
    [scc EXCEPT !.ObjectMeta = ZeroObjectMeta, !.Users = Slice(<<>>),
                !.Groups = Slice(<<>>)]

\* verifySCC without the check of the ownership label.
verifySCC_NoLabelCheck(scc, sccTemplate) ==
    LET groupErrs == GroupsLoop(sccTemplate.Groups.elems, scc.Groups.elems, 1)
        userErrs == UsersLoop(sccTemplate.Users.elems, scc.Users.elems, 1)
        otherErrs == IF LocalScc(scc) # LocalSccTemplate(sccTemplate)
                     THEN <<ModificationError>> ELSE <<>>
    IN  NewAggregate(groupErrs \o userErrs \o otherErrs)

\* verifySCC that returns at the first check that fails.
verifySCC_StopsAtFirstError(scc, sccTemplate) ==
    LET labelErrs == IF MapGet(scc.ObjectMeta.Labels, OwnedBySyncPod) # "true"
                     THEN <<LabelError>> ELSE <<>>
        groupErrs == GroupsLoop(sccTemplate.Groups.elems, scc.Groups.elems, 1)
        userErrs == UsersLoop(sccTemplate.Users.elems, scc.Users.elems, 1)
        otherErrs == IF LocalScc(scc) # LocalSccTemplate(sccTemplate)
                     THEN <<ModificationError>> ELSE <<>>
    IN  NewAggregate(IF labelErrs # <<>> THEN labelErrs
                     ELSE IF groupErrs # <<>> THEN groupErrs
                     ELSE IF userErrs # <<>> THEN userErrs
                     ELSE otherErrs)

\* verifySCC with the loop over the users ahead of the loop over the groups.
verifySCC_UsersBeforeGroups(scc, sccTemplate) ==
    LET labelErrs == IF MapGet(scc.ObjectMeta.Labels, OwnedBySyncPod) # "true"
                     THEN <<LabelError>> ELSE <<>>
        groupErrs == GroupsLoop(sccTemplate.Groups.elems, scc.Groups.elems, 1)
        userErrs == UsersLoop(sccTemplate.Users.elems, scc.Users.elems, 1)
        otherErrs == IF LocalScc(scc) # LocalSccTemplate(sccTemplate)
                     THEN <<ModificationError>> ELSE <<>>
    IN  NewAggregate(labelErrs \o userErrs \o groupErrs \o otherErrs)

verifySCC(scc, sccTemplate) ==
    LET labelErrs == IF MapGet(scc.ObjectMeta.Labels, OwnedBySyncPod) # "true"
                     THEN <<LabelError>> ELSE <<>>
        groupErrs == GroupsLoop(sccTemplate.Groups.elems, scc.Groups.elems, 1)
        userErrs == UsersLoop(sccTemplate.Users.elems, scc.Users.elems, 1)
        otherErrs == IF LocalScc(scc) # LocalSccTemplate(sccTemplate)
                     THEN <<ModificationError>> ELSE <<>>
    IN  NewAggregate(labelErrs \o groupErrs \o userErrs \o otherErrs)

(***************************************************************************)
(* The policy-object entry point.                                          *)
(***************************************************************************)
\* security.SecurityContextConstraints{}: what a map lookup yields for a
\* name that is not in the map.
ZeroSCC ==
    [SCCLiteral(NilPtr, FALSE, NilSlice, NilSlice, NilSlice, FALSE, FALSE, "",
                NilSlice, NilSlice, "", "", "", NilSlice)
       EXCEPT !.AllowPrivilegeEscalation = NilPtr]

\* handleSCC without the branch for delete requests.
handleSCC_NoDeleteBranch(r) ==
    LET got == getAdmissionReviewRequest(r)
        req == got.req
    IN  IF got.panicked THEN Panic
        ELSE IF got.errorcode # 0 THEN HttpError(StatusUnsupportedMediaType)
        ELSE IF ~req.present THEN Panic
        ELSE IF req.Object.decodeErr THEN HttpError(StatusBadRequest)
        ELSE LET o == req.Object.obj
                 scc == o.value
             IN  IF o.Kind # "SecurityContextConstraints"
                 THEN Panic
                 ELSE IF scc.ObjectMeta.Name \in DOMAIN protectedSCCs
                 THEN sendResult(verifySCC(scc, protectedSCCs[scc.ObjectMeta.Name]),
                                 req.UID)
                 ELSE sendResult(NilAggregate, req.UID)

\* handleSCC that ignores the lookup's second result and verifies against
\* whatever the lookup returned.
handleSCC_IgnoresProtected(r) ==
    LET got == getAdmissionReviewRequest(r)
        req == got.req
    IN  IF got.panicked THEN Panic
        ELSE IF got.errorcode # 0 THEN HttpError(StatusUnsupportedMediaType)
        ELSE IF ~req.present THEN Panic
        ELSE IF req.Operation = "DELETE"
        THEN IF req.Name \in DOMAIN protectedSCCs
             THEN sendResult(NewAggregate(<<[text |-> "Deleting of this SCC is not allowed",
                                             principal |-> ""]>>), req.UID)
             ELSE sendResult(NilAggregate, req.UID)
        ELSE IF req.Object.decodeErr THEN HttpError(StatusBadRequest)
        ELSE LET o == req.Object.obj
                 scc == o.value
             IN  IF o.Kind # "SecurityContextConstraints"
                 THEN Panic
                 ELSE sendResult(verifySCC(scc,
                                   IF scc.ObjectMeta.Name \in DOMAIN protectedSCCs
                                   THEN protectedSCCs[scc.ObjectMeta.Name] ELSE ZeroSCC),
                                 req.UID)

handleSCC(r) ==
    LET got == getAdmissionReviewRequest(r)
        req == got.req
    IN  IF got.panicked THEN Panic
        ELSE IF got.errorcode # 0 THEN HttpError(StatusUnsupportedMediaType)
        ELSE IF ~req.present THEN Panic
        ELSE IF req.Operation = "DELETE"
        THEN IF req.Name \in DOMAIN protectedSCCs
             THEN sendResult(NewAggregate(<<[text |-> "Deleting of this SCC is not allowed",
                                             principal |-> ""]>>), req.UID)
             ELSE sendResult(NilAggregate, req.UID)
        ELSE IF req.Object.decodeErr THEN HttpError(StatusBadRequest)
        ELSE LET o == req.Object.obj
                 scc == o.value
             IN  IF o.Kind # "SecurityContextConstraints"
                 THEN Panic   \* the type assertion fails
                 ELSE IF scc.ObjectMeta.Name \in DOMAIN protectedSCCs
                 THEN sendResult(verifySCC(scc, protectedSCCs[scc.ObjectMeta.Name]),
                                 req.UID)
                 ELSE sendResult(NilAggregate, req.UID)

\* handleSCC that keeps the map in step with the cluster: a candidate it
\* allows under a protected name becomes the template of that name.
protectedSCCsAfter_StoresAllowed(r) ==
    LET response == handleSCC(r)
        req == r.Body.Request
    IN  IF /\ response.review.present
           /\ response.review.Allowed
           /\ req.Operation # "DELETE"
           /\ req.Object.obj.value.ObjectMeta.Name \in DOMAIN protectedSCCs
        THEN [protectedSCCs EXCEPT ![req.Object.obj.value.ObjectMeta.Name] =
                                      req.Object.obj.value]
        ELSE protectedSCCs

\* ac.protectedSCCs after handleSCC: the handler only indexes the map, and
\* verifySCC gets the template by value and blanks a DeepCopy of it.
protectedSCCsAfter(r) == protectedSCCs

(***************************************************************************)
(* The inputs: HTTP requests as the API server (or any client) sends them. *)
(***************************************************************************)
RECURSIVE SeqsUpTo(_, _)
SeqsUpTo(S, n) ==
    IF n = 0 THEN {<<>>}
    ELSE LET shorter == SeqsUpTo(S, n - 1)
         IN  shorter \cup {Append(q, x) : q \in {t \in shorter : Len(t) = n - 1}, x \in S}

\* Image names, kept short: one that the whitelist of the tests matches
\* and one that merely ends in it.
ImageWhitelisted1 == <<"w", "1">>
ImageRegular == <<"r", "w", "1">>
Images == {ImageWhitelisted1, ImageRegular}

Containers == [Image : Images, Privileged : {"nil", "true"}]

NilMap == [isNil |-> TRUE, entries |-> {}]
Map(entries) == [isNil |-> FALSE, entries |-> entries]

\* Where the template asks to run: (nodeSelector, nodeName).
Placements ==
    { [NodeSelector |-> NilMap, NodeName |-> <<>>],
      [NodeSelector |-> Map({<<NodeRoleMaster, "true">>}), NodeName |-> <<>>],
      [NodeSelector |-> Map({<<NodeRoleInfra, "true">>}), NodeName |-> <<>>],
      [NodeSelector |-> Map({<<NodeRoleMaster, "false">>, <<"region", "true">>}),
       NodeName |-> <<"c", "-", "0">>],
      [NodeSelector |-> NilMap, NodeName |-> MasterPrefix \o <<"0">>],
      [NodeSelector |-> NilMap, NodeName |-> InfraPrefix \o <<"1">>],
      [NodeSelector |-> Map({}), NodeName |-> <<"m", "a", "s", "t", "e", "r">>] }

PodSpecs ==
    { [Containers |-> cs, InitContainers |-> ics, NodeSelector |-> pl.NodeSelector,
       NodeName |-> pl.NodeName, HostNetwork |-> hn] :
        cs \in SeqsUpTo(Containers, MaxContainers),
        ics \in SeqsUpTo(Containers, 1),
        pl \in Placements,
        hn \in BOOLEAN }

Namespaces == {"default", "customer"}

\* The metadata of a pod template: it names no namespace of its own.
TemplateMeta ==
    [Name |-> "", Namespace |-> "", Labels |-> {<<"app", "x">>}, ResourceVersion |-> ""]

\* A decoded workload object of a kind, holding the pod template at the
\* place the kind keeps it.  Namespace is the field the object's own
\* metadata promotes (o.Namespace).
Workload(kind, ns, spec) ==
    LET template == [ObjectMeta |-> TemplateMeta, Spec |-> spec]
    IN  CASE kind = "Pod" ->
               [Kind |-> kind, Namespace |-> ns,
                ObjectMeta |-> [TemplateMeta EXCEPT !.Namespace = ns], Spec |-> spec]
          [] kind = "CronJob" ->
               [Kind |-> kind, Namespace |-> ns,
                Spec |-> [JobTemplate |-> [Spec |-> [Template |-> template]]]]
          [] OTHER ->
               [Kind |-> kind, Namespace |-> ns, Spec |-> [Template |-> template]]

Review(uid, kind, name, operation, object) ==
    [Method |-> "POST", ContentType |-> "application/json",
     Body |-> [decodable |-> TRUE, null |-> FALSE,
               Request |-> [present |-> TRUE, UID |-> uid, Kind |-> kind, Name |-> name,
                            Operation |-> operation, Object |-> object]]]

Decoded(obj) == [decodeErr |-> FALSE, obj |-> obj]
Undecodable == [decodeErr |-> TRUE, obj |-> [Kind |-> ""]]

\* A request the server cannot turn into a review, or a review without a
\* request in it.
BrokenEnvelopes(review) ==
    { [review EXCEPT !.Method = "GET"],
      [review EXCEPT !.Method = "GET", !.ContentType = "text/plain"],
      [review EXCEPT !.ContentType = "text/plain"],
      [review EXCEPT !.ContentType = "text/plain",
                     !.Body = [decodable |-> FALSE, null |-> FALSE, Request |-> NilRequest]],
      [review EXCEPT !.Body = [decodable |-> FALSE, null |-> FALSE, Request |-> NilRequest]],
      [review EXCEPT !.Body = [decodable |-> TRUE, null |-> TRUE, Request |-> NilRequest]],
      [review EXCEPT !.Body = [decodable |-> TRUE, null |-> FALSE, Request |-> NilRequest]],
      [review EXCEPT !.Body.Request.UID = ""],
      [review EXCEPT !.Body.Request.Object = Undecodable] }

PodGVK(kind) == [Group |-> "", Version |-> "v1", Kind |-> kind]

WorkloadReview(kind, ns, spec) ==
    Review("uid", PodGVK(kind), "name", "CREATE", Decoded(Workload(kind, ns, spec)))

\* Pods of every shape in every namespace; the other kinds, and a kind the
\* table does not know, around the templates of at most one container and
\* around every list of containers placed nowhere in particular.
WhitelistRequests ==
    { WorkloadReview("Pod", ns, spec) : ns \in Namespaces, spec \in PodSpecs }
    \cup { WorkloadReview(kind, ns, spec) :
             kind \in (UnpackerKinds \cup {"Service"}) \ {"Pod"},
             ns \in Namespaces,
             spec \in {p \in PodSpecs :
                        \/ Len(p.Containers) + Len(p.InitContainers) <= 1
                        \/ p.NodeSelector.isNil /\ p.NodeName = <<>> /\ ~p.HostNetwork} }
    \cup UNION { BrokenEnvelopes(WorkloadReview("Pod", "default", spec)) \cup
                 { [WorkloadReview("Pod", "default", spec) EXCEPT !.Body.Request.Kind.Version = ""],
                   [WorkloadReview("Pod", "default", spec) EXCEPT !.Body.Request.Kind.Kind = ""] } :
                 spec \in {p \in PodSpecs :
                            /\ p.Containers \in {<<>>, <<[Image |-> ImageRegular, Privileged |-> "true"]>>}
                            /\ p.InitContainers = <<>>
                            /\ p.NodeName = <<>> /\ ~p.HostNetwork} }

\* The subsequences of seq that drop at most k of its elements.
RECURSIVE Pick(_, _, _)
Pick(seq, keep, i) ==
    IF i > Len(seq) THEN <<>>
    ELSE (IF i \in keep THEN <<seq[i]>> ELSE <<>>) \o Pick(seq, keep, i + 1)

Dropping(seq, k) ==
    { Pick(seq, keep, 1) :
        keep \in {K \in SUBSET (1..Len(seq)) : Len(seq) - Cardinality(K) <= k} }

\* The principal lists a candidate may carry for a template's list: some
\* of the template's principals dropped, a new principal put in front or
\* not, and an empty list either nil or allocated.
ExtraPrincipal == "myuser"

PrincipalLists(template) ==
    LET kept == Dropping(template.elems, MaxRemoved)
        lists == kept \cup {<<ExtraPrincipal>> \o l : l \in kept}
    IN  {Slice(l) : l \in lists} \cup (IF <<>> \in lists THEN {NilSlice} ELSE {})

\* The metadata a candidate may carry under a name.
ObjectMetas(name) ==
    { [Name |-> name, Labels |-> {<<OwnedBySyncPod, "true">>}, ResourceVersion |-> ""],
      [Name |-> name, Labels |-> {<<OwnedBySyncPod, "true">>, <<"extra", "x">>},
       ResourceVersion |-> "3754"],
      [Name |-> name, Labels |-> {<<"extra", "x">>}, ResourceVersion |-> "3754"],
      [Name |-> name, Labels |-> {<<OwnedBySyncPod, "false">>}, ResourceVersion |-> ""] }

\* The other fields a candidate may carry: the template's, or the
\* template's with one or two fields changed, or with a nil list sent as [].
OtherFields(template) ==
    { template,
      [template EXCEPT !.AllowPrivilegedContainer = ~@],
      [template EXCEPT !.Priority = Ptr(5)],
      [template EXCEPT !.AllowPrivilegedContainer = ~@, !.Priority = Ptr(5)],
      [template EXCEPT !.DefaultAddCapabilities = Slice(<<>>)] }

Candidates(name, template) ==
    { [other EXCEPT !.ObjectMeta = meta, !.Users = users, !.Groups = groups] :
        other \in OtherFields(template),
        meta \in ObjectMetas(name),
        users \in PrincipalLists(template.Users),
        groups \in PrincipalLists(template.Groups) }

ProtectedNames == DOMAIN InitProtectedSCCs

\* Candidates under every protected name, and the same content under a name
\* that is not protected.
AllCandidates ==
    UNION { Candidates(name, InitProtectedSCCs[name]) : name \in ProtectedNames }
    \cup Candidates("notprotected", InitProtectedSCCs["anyuid"])
    \cup Candidates("notprotected", InitProtectedSCCs["hostmount-anyuid"])

SccGVK == [Group |-> "security.openshift.io", Version |-> "v1",
           Kind |-> "SecurityContextConstraints"]

SccObject(scc) == Decoded([Kind |-> "SecurityContextConstraints", value |-> scc])

\* What a delete request may carry as its object: nothing decodable, or
\* some policy object.
DeletePayloads ==
    { Undecodable,
      SccObject([InitProtectedSCCs["anyuid"] EXCEPT
                    !.ObjectMeta = [Name |-> "anyuid", Labels |-> {}, ResourceVersion |-> ""],
                    !.Groups = NilSlice]),
      SccObject([InitProtectedSCCs["privileged"] EXCEPT
                    !.ObjectMeta = [Name |-> "notprotected",
                                    Labels |-> {<<OwnedBySyncPod, "true">>},
                                    ResourceVersion |-> ""]]) }

SCCRequests ==
    { Review("uid", SccGVK, scc.ObjectMeta.Name, op, SccObject(scc)) :
        op \in {"CREATE", "UPDATE"}, scc \in AllCandidates }
    \cup { Review("uid", SccGVK, name, "DELETE", payload) :
             name \in ProtectedNames \cup {"notprotected"}, payload \in DeletePayloads }
    \cup UNION { BrokenEnvelopes(Review("uid", SccGVK, name, op, payload)) :
                   name \in {"anyuid", "notprotected"}, op \in {"UPDATE", "DELETE"},
                   payload \in DeletePayloads }
    \cup { Review("uid", SccGVK, "name", "UPDATE",
                  Decoded(Workload("Pod", "default", spec))) :
             spec \in {p \in PodSpecs : p.Containers = <<>> /\ p.InitContainers = <<>>
                                       /\ p.NodeName = <<>> /\ ~p.HostNetwork} }

(***************************************************************************)
(* The state machine.                                                      *)
(***************************************************************************)
Idle == [served |-> FALSE]

\* What the configuration file may list: nothing, or the two anchored
\* patterns of the tests.
Whitelists ==
    { <<>>,
      <<Anchored(ImageWhitelisted1), Anchored(<<"w", "2">>)>> }

\* The connections the server may be serving, each by a goroutine of its
\* own; none is open when the server starts.
Connections == 1..MaxInFlight
NoneInFlight == [c \in Connections |-> [pc |-> "idle"]]

\* The two revisions of setupAdmissionController: the one that waits with
\* wait.Until and a stop channel, and the one before it, with for loops.
Revisions == {"wait.Until", "for"}

LatestRevision == "wait.Until"

\* go setupAdmissionController(...): the goroutine at its first statement.
\* pods is the listing it holds once it has found the pods ready.
AtStart(revision) == [revision |-> revision, pc |-> "waitPods", pods |-> <<>>]

\* Listings under the selector openshift.io/component=aro-admission-controller
\* in kube-system before anything is deployed.
NothingListed == [pods |-> <<>>, services |-> 0]

\* run(): the process-wide state, built once.
Init ==
    /\ restricted = getRestrictedSCC
    /\ whitelistedImages \in Whitelists
    /\ protectedSCCs = InitProtectedSCCs
    /\ exchange = Idle
    /\ inflight = NoneInFlight
    /\ setup = AtStart(LatestRevision)
    /\ cluster = NothingListed

\* The server runs handleWhitelist on a request for the workload path.
HandleWhitelist ==
    /\ exchange = Idle
    /\ \E r \in WhitelistRequests :
         exchange' = [served |-> TRUE, handler |-> "handleWhitelist", request |-> r,
                      response |-> handleWhitelist(r),
                      objects |-> handleWhitelistObjects(r)]
    /\ UNCHANGED <<restricted, whitelistedImages, protectedSCCs, inflight, setup, cluster>>

\* The server runs handleSCC on a request for the policy-object path.
HandleSCC ==
    /\ exchange = Idle
    /\ \E r \in SCCRequests :
         /\ exchange' = [served |-> TRUE, handler |-> "handleSCC", request |-> r,
                         response |-> handleSCC(r)]
         /\ protectedSCCs' = protectedSCCsAfter(r)
    /\ UNCHANGED <<restricted, whitelistedImages, inflight, setup, cluster>>

\* The exchange ends: the response is with the client.
Finish ==
    /\ exchange # Idle
    /\ exchange' = Idle
    /\ UNCHANGED <<restricted, whitelistedImages, protectedSCCs, inflight, setup, cluster>>

Next == HandleWhitelist \/ HandleSCC \/ Finish

Spec == Init /\ [][Next]_vars

(***************************************************************************)
(* Several requests in flight.  The server runs every handler call in a    *)
(* goroutine of its own; a handler keeps its request, and the UID it takes *)
(* from it, in local variables and reads the controller's fields only.     *)
(***************************************************************************)
UIDs == {"uid", "uid-2"}

WithUID(review, uid) == [review EXCEPT !.Body.Request.UID = uid]

PodOf(image, privileged) ==
    [Containers |-> <<[Image |-> image, Privileged |-> privileged]>>, InitContainers |-> <<>>,
     NodeSelector |-> NilMap, NodeName |-> <<>>, HostNetwork |-> FALSE]

\* Workload requests that end allowed, denied, and without a verdict.
InFlightWhitelistRequests ==
    { WithUID(r, uid) :
        uid \in UIDs,
        r \in { WorkloadReview("Pod", "default", PodOf(ImageWhitelisted1, "true")),
                WorkloadReview("Pod", "default", PodOf(ImageRegular, "true")),
                WorkloadReview("Deployment", "default", PodOf(ImageRegular, "nil")),
                WorkloadReview("CronJob", "customer", PodOf(ImageRegular, "nil")) } }

AnyuidWith(labels, groups) ==
    [InitProtectedSCCs["anyuid"] EXCEPT
        !.ObjectMeta = [Name |-> "anyuid", Labels |-> labels, ResourceVersion |-> "3754"],
        !.Groups = groups]

\* Policy-object requests that end allowed and denied.
InFlightSCCRequests ==
    { Review(uid, SccGVK, "anyuid", "UPDATE", SccObject(scc)) :
        uid \in UIDs,
        scc \in { AnyuidWith({<<OwnedBySyncPod, "true">>},
                             Slice(<<ExtraPrincipal, "system:cluster-admins">>)),
                  AnyuidWith({}, NilSlice) } }
    \cup { Review(uid, SccGVK, name, "DELETE", Undecodable) :
             uid \in UIDs, name \in {"anyuid", "notprotected"} }

Receive(c) ==
    /\ inflight[c].pc = "idle"
    /\ \/ \E r \in InFlightWhitelistRequests :
            inflight' = [inflight EXCEPT ![c] = [pc |-> "received",
                                                 handler |-> "handleWhitelist",
                                                 request |-> r]]
       \/ \E r \in InFlightSCCRequests :
            inflight' = [inflight EXCEPT ![c] = [pc |-> "received",
                                                 handler |-> "handleSCC",
                                                 request |-> r]]
    /\ UNCHANGED <<restricted, whitelistedImages, protectedSCCs, exchange, setup, cluster>>

\* Serve under a lock that a handler holds until its response has gone
\* out: no handler runs while another connection's answer is waiting.
Serve_OneAtATime(c) ==
    /\ inflight[c].pc = "received"
    /\ \A d \in Connections \ {c} : inflight[d].pc # "answered"
    /\ inflight' = [inflight EXCEPT ![c] =
                       [pc |-> "answered", handler |-> @.handler, request |-> @.request,
                        response |-> IF @.handler = "handleWhitelist"
                                     THEN handleWhitelist(@.request)
                                     ELSE handleSCC(@.request)]]
    /\ UNCHANGED <<restricted, whitelistedImages, protectedSCCs, exchange, setup, cluster>>

\* The goroutine of connection c runs its handler to the end.
Serve(c) ==
    /\ inflight[c].pc = "received"
    /\ inflight' = [inflight EXCEPT ![c] =
                       [pc |-> "answered", handler |-> @.handler, request |-> @.request,
                        response |-> IF @.handler = "handleWhitelist"
                                     THEN handleWhitelist(@.request)
                                     ELSE handleSCC(@.request)]]
    /\ UNCHANGED <<restricted, whitelistedImages, protectedSCCs, exchange, setup, cluster>>

\* The response has gone out and the connection is free again.
Deliver(c) ==
    /\ inflight[c].pc = "answered"
    /\ inflight' = [inflight EXCEPT ![c] = [pc |-> "idle"]]
    /\ UNCHANGED <<restricted, whitelistedImages, protectedSCCs, exchange, setup, cluster>>

NextInFlight == \E c \in Connections : Receive(c) \/ Serve(c) \/ Deliver(c)

SpecInFlight == Init /\ [][NextInFlight]_vars

(***************************************************************************)
(* The gate under the patterns a configuration file may hold.  run()       *)
(* compiles every string of the whitelist as it is written: anchors and    *)
(* the (?i) flag are there only when the string has them.                  *)
(***************************************************************************)
Unanchored(lit) == [anchorStart |-> FALSE, anchorEnd |-> FALSE, lit |-> lit, foldCase |-> FALSE]
AnchoredFold(lit) == [anchorStart |-> TRUE, anchorEnd |-> TRUE, lit |-> lit, foldCase |-> TRUE]

ConfiguredWhitelists ==
    { <<Anchored(ImageWhitelisted1)>>,
      <<Unanchored(ImageWhitelisted1)>>,
      <<AnchoredFold(ImageWhitelisted1)>>,
      <<Anchored(<<"w", "2">>), Unanchored(<<"r">>)>>,
      <<>> }

\* The whitelisted image, the same in capitals, and strings that hold it
\* or are held by it.
GateImages ==
    { ImageWhitelisted1, <<"W", "1">>, ImageRegular, <<"w", "1", "r">>, <<"w">> }

GateRequests ==
    { WorkloadReview(kind, "default", PodOf(image, privileged)) :
        kind \in {"Pod", "Job"}, image \in GateImages, privileged \in {"nil", "true"} }
    \cup { WorkloadReview("Pod", "default",
                          [PodOf(image, "true") EXCEPT
                              !.InitContainers = <<[Image |-> other, Privileged |-> "nil"]>>]) :
             image \in GateImages, other \in GateImages }

InitGate ==
    /\ restricted = getRestrictedSCC
    /\ whitelistedImages \in ConfiguredWhitelists
    /\ protectedSCCs = InitProtectedSCCs
    /\ exchange = Idle
    /\ inflight = NoneInFlight
    /\ setup = AtStart(LatestRevision)
    /\ cluster = NothingListed

CheckImages ==
    /\ exchange = Idle
    /\ \E r \in GateRequests :
         exchange' = [served |-> TRUE, handler |-> "handleWhitelist", request |-> r,
                      response |-> handleWhitelist(r),
                      objects |-> handleWhitelistObjects(r)]
    /\ UNCHANGED <<restricted, whitelistedImages, protectedSCCs, inflight, setup, cluster>>

NextGate == CheckImages \/ Finish

SpecGate == InitGate /\ [][NextGate]_vars

(***************************************************************************)
(* The bootstrap goroutine.  run() starts setupAdmissionController with a  *)
(* go statement; it polls the pod listing and the service listing and then *)
(* creates the webhook configuration and the cluster role binding.  The    *)
(* pods and services come and go on their own.                             *)
(***************************************************************************)
PodScheduled == [Type |-> "PodScheduled", Status |-> "True"]
PodReady(status) == [Type |-> "Ready", Status |-> status]

\* pod.Status.Conditions of a pod that is scheduled and has not reported on
\* its readiness, of one that reports not ready, and of one that is ready.
PodConditionLists ==
    { <<PodScheduled>>,
      <<PodScheduled, PodReady("False")>>,
      <<PodScheduled, PodReady("True")>> }

\* The loop over pods.Items and their conditions: allReady stays true
\* unless some condition of type Ready has a status other than True.
allReady(pods) ==
    \A i \in 1..Len(pods) :
        \A j \in 1..Len(pods[i].Conditions) :
            ~(pods[i].Conditions[j].Type = "Ready" /\ pods[i].Conditions[j].Status # "True")

\* After a listing that passes the check, the revision with for loops
\* breaks out of the loop.  The revision with wait.Until sends on stopCh,
\* which is declared and never made: a send on a nil channel blocks for
\* ever, so from "sendPods" and "sendService" the goroutine has no step.
AfterPodsFound(revision) == IF revision = "wait.Until" THEN "sendPods" ELSE "waitService"
AfterServiceFound(revision) == IF revision = "wait.Until" THEN "sendService" ELSE "createVWC"

\* One pass of the first wait loop: list the pods, and go on when there are
\* three and allReady holds.  An error of List ends the process.
ListPods ==
    /\ setup.pc = "waitPods"
    /\ \/ /\ Len(cluster.pods) = 3 /\ allReady(cluster.pods)
          /\ setup' = [setup EXCEPT !.pods = cluster.pods,
                                    !.pc = AfterPodsFound(setup.revision)]
       \/ /\ ~(Len(cluster.pods) = 3 /\ allReady(cluster.pods))
          /\ setup' = setup
       \/ setup' = [setup EXCEPT !.pc = "fatal"]
    /\ UNCHANGED <<restricted, whitelistedImages, protectedSCCs, exchange, inflight, cluster>>

\* One pass of the second wait loop: list the services, and go on when
\* there is one.
ListServices ==
    /\ setup.pc = "waitService"
    /\ \/ /\ cluster.services = 1
          /\ setup' = [setup EXCEPT !.pc = AfterServiceFound(setup.revision)]
       \/ /\ cluster.services # 1
          /\ setup' = setup
       \/ setup' = [setup EXCEPT !.pc = "fatal"]
    /\ UNCHANGED <<restricted, whitelistedImages, protectedSCCs, exchange, inflight, cluster>>

\* Create the ValidatingWebhookConfiguration: created, or there already, or
\* another error, which ends the process.
CreateValidatingWebhookConfiguration ==
    /\ setup.pc = "createVWC"
    /\ \E outcome \in {"created", "already exists", "error"} :
         setup' = [setup EXCEPT !.pc = IF outcome = "error" THEN "fatal" ELSE "relabelSCCs"]
    /\ UNCHANGED <<restricted, whitelistedImages, protectedSCCs, exchange, inflight, cluster>>

\* List the SCCs and set the ownership label on the listed copies; nothing
\* is written back.
RelabelSCCs ==
    /\ setup.pc = "relabelSCCs"
    /\ setup' = [setup EXCEPT !.pc = "createCRB"]
    /\ UNCHANGED <<restricted, whitelistedImages, protectedSCCs, exchange, inflight, cluster>>

\* Create the ClusterRoleBinding, likewise, and log "Setup: done."
CreateClusterRoleBinding ==
    /\ setup.pc = "createCRB"
    /\ \E outcome \in {"created", "already exists", "error"} :
         setup' = [setup EXCEPT !.pc = IF outcome = "error" THEN "fatal" ELSE "done"]
    /\ UNCHANGED <<restricted, whitelistedImages, protectedSCCs, exchange, inflight, cluster>>

\* The cluster: a pod of the component is created, reports other
\* conditions, or goes away; so does a service under the selector.
PodAppears ==
    /\ Len(cluster.pods) < MaxPods
    /\ \E conditions \in PodConditionLists :
         cluster' = [cluster EXCEPT !.pods = Append(@, [Conditions |-> conditions])]
    /\ UNCHANGED <<restricted, whitelistedImages, protectedSCCs, exchange, inflight, setup>>

PodConditionsChange ==
    /\ \E i \in 1..Len(cluster.pods), conditions \in PodConditionLists :
         /\ conditions # cluster.pods[i].Conditions
         /\ cluster' = [cluster EXCEPT !.pods[i].Conditions = conditions]
    /\ UNCHANGED <<restricted, whitelistedImages, protectedSCCs, exchange, inflight, setup>>

PodDisappears ==
    /\ \E i \in 1..Len(cluster.pods) :
         cluster' = [cluster EXCEPT !.pods = SubSeq(@, 1, i - 1) \o SubSeq(@, i + 1, Len(@))]
    /\ UNCHANGED <<restricted, whitelistedImages, protectedSCCs, exchange, inflight, setup>>

ServiceAppears ==
    /\ cluster.services < MaxServices
    /\ cluster' = [cluster EXCEPT !.services = @ + 1]
    /\ UNCHANGED <<restricted, whitelistedImages, protectedSCCs, exchange, inflight, setup>>

ServiceDisappears ==
    /\ cluster.services > 0
    /\ cluster' = [cluster EXCEPT !.services = @ - 1]
    /\ UNCHANGED <<restricted, whitelistedImages, protectedSCCs, exchange, inflight, setup>>

InitSetup ==
    /\ restricted = getRestrictedSCC
    /\ whitelistedImages = <<>>
    /\ protectedSCCs = InitProtectedSCCs
    /\ exchange = Idle
    /\ inflight = NoneInFlight
    /\ setup \in {AtStart(revision) : revision \in Revisions}
    /\ cluster = NothingListed

\* The steps of the goroutine.
SetupStep ==
    \/ ListPods
    \/ ListServices
    \/ CreateValidatingWebhookConfiguration
    \/ RelabelSCCs
    \/ CreateClusterRoleBinding

ClusterStep ==
    \/ PodAppears
    \/ PodConditionsChange
    \/ PodDisappears
    \/ ServiceAppears
    \/ ServiceDisappears

NextSetup == SetupStep \/ ClusterStep

\* The goroutine is scheduled like any other: a step it can take is taken.
SpecSetup == InitSetup /\ [][NextSetup]_vars /\ WF_vars(SetupStep)

(***************************************************************************)
(* Routing.  The webhook configuration that setup creates tells the API    *)
(* server which requests to send to which path of the service; the mux of  *)
(* ac.run() hands each path to a handler; each handler of a kind checks    *)
(* the kind and the resource of the request before it decodes the object.  *)
(***************************************************************************)
GVK(group, version, kind) == [Group |-> group, Version |-> version, Kind |-> kind]
GVR(group, version, resource) == [Group |-> group, Version |-> version, Resource |-> resource]

Hook(path, group, version, resource) ==
    [ServicePath |-> path, Operations |-> <<"CREATE", "UPDATE">>, APIGroups |-> <<group>>,
     APIVersions |-> <<version>>, Resources |-> <<resource>>]

\* hookconfig: one webhook with one rule for each entry.
initializeValidatingWebhookConfiguration ==
    << Hook("/pods", "", "v1", "pods"),
       Hook("/daemonsets", "apps", "v1", "daemonsets"),
       Hook("/replicasets", "apps", "v1", "replicasets"),
       Hook("/statefulsets", "apps", "v1", "statefulsets"),
       Hook("/jobs", "batch", "v1", "jobs"),
       Hook("/cronjobs", "batch", "v1beta1", "cronjobs"),
       Hook("/deploymentconfigs", "apps", "v1", "deploymentconfigs") >>

\* The mux of the first main, which gave /deploymentconfigs to the handler
\* of cron jobs.
mux_DeploymentConfigsToCronJob(path) ==
    CASE path = "/pods" -> "handlePod"
      [] path = "/daemonsets" -> "handleDaemonSet"
      [] path = "/replicasets" -> "handleReplicaSet"
      [] path = "/statefulsets" -> "handleStatefulSet"
      [] path = "/jobs" -> "handleJob"
      [] path = "/cronjobs" -> "handleCronJob"
      [] path = "/deploymentconfigs" -> "handleCronJob"
      [] path \in {"/healthz", "/healthz/ready"} -> "handleHealthz"
      [] OTHER -> "NotFound"

\* mux.HandleFunc(path, handler): the handler of a path; ServeMux answers
\* a path that has none with 404.
mux(path) ==
    CASE path = "/pods" -> "handlePod"
      [] path = "/daemonsets" -> "handleDaemonSet"
      [] path = "/replicasets" -> "handleReplicaSet"
      [] path = "/statefulsets" -> "handleStatefulSet"
      [] path = "/jobs" -> "handleJob"
      [] path = "/cronjobs" -> "handleCronJob"
      [] path = "/deploymentconfigs" -> "handleDeploymentConfig"
      [] path \in {"/healthz", "/healthz/ready"} -> "handleHealthz"
      [] OTHER -> "NotFound"

KindHandlers ==
    {"handlePod", "handleDaemonSet", "handleReplicaSet", "handleStatefulSet", "handleJob",
     "handleCronJob", "handleDeploymentConfig"}

\* The kind and the resource that the handler compares the request with.
Expects(handler) ==
    CASE handler = "handlePod" ->
           [Kind |-> GVK("", "v1", "Pod"), Resource |-> GVR("", "v1", "pods")]
      [] handler = "handleDaemonSet" ->
           [Kind |-> GVK("apps", "v1", "DaemonSet"),
            Resource |-> GVR("apps", "v1", "daemonsets")]
      [] handler = "handleReplicaSet" ->
           [Kind |-> GVK("apps", "v1", "ReplicaSet"),
            Resource |-> GVR("apps", "v1", "replicasets")]
      [] handler = "handleStatefulSet" ->
           [Kind |-> GVK("apps", "v1", "StatefulSet"),
            Resource |-> GVR("apps", "v1", "statefulsets")]
      [] handler = "handleJob" ->
           [Kind |-> GVK("batch", "v1", "Job"), Resource |-> GVR("batch", "v1", "jobs")]
      [] handler = "handleCronJob" ->
           [Kind |-> GVK("batch", "v1beta1", "CronJob"),
            Resource |-> GVR("batch", "v1beta1", "cronjobs")]
      [] handler = "handleDeploymentConfig" ->
           [Kind |-> GVK("apps", "v1", "DeploymentConfig"),
            Resource |-> GVR("apps", "v1", "deploymentconfigs")]

\* The check at the head of every handler of a kind.
FieldMismatch(handler, req) ==
    \/ req.UID = ""
    \/ req.Kind # Expects(handler).Kind
    \/ req.Resource # Expects(handler).Resource
    \/ req.SubResource # ""

\* handlePod ... handleDeploymentConfig.  handleDeploymentConfig builds a
\* corev1.Pod, which checkPodSpec's assertion podi.(*core.Pod) does not
\* take.
handleKind(handler, r) ==
    LET got == getAdmissionReviewRequest(r)
        req == got.req
    IN  IF got.panicked THEN Panic
        ELSE IF got.errorcode # 0 THEN HttpError(StatusUnsupportedMediaType)
        ELSE IF ~req.present THEN Panic
        ELSE IF FieldMismatch(handler, req) THEN HttpError(StatusBadRequest)
        ELSE IF req.Object.decodeErr THEN HttpError(StatusBadRequest)
        ELSE LET o == req.Object.obj
             IN  IF o.Kind # Expects(handler).Kind.Kind THEN Panic
                 ELSE IF handler = "handleDeploymentConfig" THEN Panic
                 ELSE LET t == unpackers(o.Kind, o)
                      IN  checkPodSpec(t.spec, t.meta, t.namespace, req.UID)

\* The server: the mux picks the handler of the request's path.
ServeHTTP(r) ==
    LET handler == mux(r.Path)
    IN  [served |-> TRUE, handler |-> handler, request |-> r,
         response |-> IF handler = "NotFound" THEN HttpError(StatusNotFound)
                      ELSE IF handler = "handleHealthz"
                      THEN [status |-> StatusOK, review |-> NoReview, panicked |-> FALSE]
                      ELSE handleKind(handler, r)]

\* The kind of the objects of a resource, as the API server names it in a
\* review.
KindOfResource(resource) ==
    CASE resource = "pods" -> "Pod"
      [] resource = "daemonsets" -> "DaemonSet"
      [] resource = "replicasets" -> "ReplicaSet"
      [] resource = "statefulsets" -> "StatefulSet"
      [] resource = "jobs" -> "Job"
      [] resource = "cronjobs" -> "CronJob"
      [] resource = "deploymentconfigs" -> "DeploymentConfig"
      [] resource = "deployments" -> "Deployment"

\* A review of an object of a resource, posted to a path of the service.
RoutedReview(path, resource, operation, subResource, spec) ==
    LET kind == KindOfResource(resource.Resource)
        review == Review("uid", GVK(resource.Group, resource.Version, kind), "name",
                         operation, Decoded(Workload(kind, "default", spec)))
    IN  [Path |-> path, Method |-> review.Method, ContentType |-> review.ContentType,
         Body |-> [decodable |-> TRUE, null |-> FALSE,
                   Request |-> [present |-> TRUE, UID |-> "uid",
                                Kind |-> review.Body.Request.Kind,
                                Resource |-> resource, SubResource |-> subResource,
                                Name |-> "name", Operation |-> operation,
                                Object |-> review.Body.Request.Object]]]

ServicePaths ==
    {initializeValidatingWebhookConfiguration[i].ServicePath :
        i \in DOMAIN initializeValidatingWebhookConfiguration}
    \cup {"/deployments", "/healthz"}

RuleResources ==
    {GVR(h.APIGroups[1], h.APIVersions[1], h.Resources[1]) :
        h \in {initializeValidatingWebhookConfiguration[i] :
                  i \in DOMAIN initializeValidatingWebhookConfiguration}}
    \cup {GVR("apps", "v1", "deployments")}

\* Every resource at every path: what the API server sends under the
\* rules, and what any other client may post.
RoutedRequests ==
    { RoutedReview(path, resource, operation, subResource, PodOf(ImageRegular, privileged)) :
        path \in ServicePaths, resource \in RuleResources,
        operation \in {"CREATE", "UPDATE", "DELETE"}, subResource \in {"", "status"},
        privileged \in {"nil", "true"} }

InitRouting ==
    /\ restricted = getRestrictedSCC
    /\ whitelistedImages \in Whitelists
    /\ protectedSCCs = InitProtectedSCCs
    /\ exchange = Idle
    /\ inflight = NoneInFlight
    /\ setup = AtStart(LatestRevision)
    /\ cluster = NothingListed

Route ==
    /\ exchange = Idle
    /\ \E r \in RoutedRequests : exchange' = ServeHTTP(r)
    /\ UNCHANGED <<restricted, whitelistedImages, protectedSCCs, inflight, setup, cluster>>

NextRouting == Route \/ Finish

SpecRouting == InitRouting /\ [][NextRouting]_vars

(***************************************************************************)
(* Vocabulary of the properties.                                           *)
(***************************************************************************)
Served(handler) == exchange.served /\ exchange.handler = handler

\* The request carries a review that the transport checks let through.
EnvelopeOK(r) ==
    /\ r.Method = "POST"
    /\ r.ContentType = "application/json"
    /\ r.Body.decodable
    /\ ~r.Body.null
    /\ r.Body.Request.present

\* A workload request that reaches the gate: a decoded object of a kind
\* the normalizer knows.
ReachesGate ==
    /\ Served("handleWhitelist")
    /\ EnvelopeOK(exchange.request)
    /\ LET req == exchange.request.Body.Request
       IN  /\ req.UID # "" /\ req.Kind.Version # "" /\ req.Kind.Kind # ""
           /\ ~req.Object.decodeErr
           /\ req.Object.obj.Kind \in UnpackerKinds

TheObject == exchange.request.Body.Request.Object.obj

\* The pod template of the request's object, read at the kind's place.
TheTemplate ==
    IF TheObject.Kind = "Pod" THEN TheObject.Spec
    ELSE IF TheObject.Kind = "CronJob" THEN TheObject.Spec.JobTemplate.Spec.Template.Spec
    ELSE TheObject.Spec.Template.Spec

TheResponse == exchange.response

Allowed == TheResponse.review.present /\ TheResponse.review.Allowed
Denied == TheResponse.review.present /\ ~TheResponse.review.Allowed

\* The message of a verdict with the separators taken out: the violations
\* it reports, in order.
Reported(review) == SelectSeq(review.Result.Message, LAMBDA piece : piece # Separator)

Violations == IF TheResponse.review.present THEN Reported(TheResponse.review) ELSE <<>>

AllowedSilently == Allowed /\ TheResponse.status = StatusOK /\ Violations = <<>>

Count(seq, x) == Cardinality({k \in 1..Len(seq) : seq[k] = x})

AllImages(T) == {c.Image : c \in {T.Containers[i] : i \in 1..Len(T.Containers)}
                              \cup {T.InitContainers[i] : i \in 1..Len(T.InitContainers)}}

Matches(image) == \E i \in 1..Len(whitelistedImages) : MatchString(whitelistedImages[i], image)

NodeRuleApplies(T) ==
    \/ <<NodeRoleMaster, "true">> \in T.NodeSelector.entries
    \/ <<NodeRoleInfra, "true">> \in T.NodeSelector.entries
    \/ HasPrefix(T.NodeName, MasterPrefix)
    \/ HasPrefix(T.NodeName, InfraPrefix)

SomePrivileged(containers) == \E i \in 1..Len(containers) : containers[i].Privileged = "true"

(***************************************************************************)
(* Properties of the workload entry point.                                 *)
(***************************************************************************)
\* C1: for a template the gate does not exempt, evaluated against a baseline
\* that forbids privileged containers, the violations hold exactly one
\* violation for every element i of spec.containers that sets privileged,
\* with the path spec.containers[i].securityContext.privileged, none for an
\* element that does not set it, and the verdict is allowed:false.
C1_OnePrivilegedViolationPerContainer ==
    ( /\ ReachesGate
      /\ ~podSpecIsWhitelisted(TheTemplate, whitelistedImages)
      /\ TheObject.Namespace \in AnnotatedNamespaces
      /\ ~restricted.AllowPrivilegedContainer )
    => /\ \A i \in 1..Len(TheTemplate.Containers) :
            Count(Violations, PrivilegedViolation("containers", i - 1))
              = IF TheTemplate.Containers[i].Privileged = "true" THEN 1 ELSE 0
       /\ \A k \in 1..Len(Violations) :
            (Violations[k].list = "containers"
               /\ Violations[k].field = "securityContext.privileged")
            => Violations[k].index \in 0..(Len(TheTemplate.Containers) - 1)
       /\ SomePrivileged(TheTemplate.Containers) => Denied

C1_Witness ==
    /\ ReachesGate
    /\ ~podSpecIsWhitelisted(TheTemplate, whitelistedImages)
    /\ TheObject.Namespace \in AnnotatedNamespaces
    /\ Len(TheTemplate.Containers) = 2
    /\ TheTemplate.Containers[1].Privileged = "nil"
    /\ TheTemplate.Containers[2].Privileged = "true"
    /\ Denied
    /\ Violations = <<PrivilegedViolation("containers", 1)>>

\* C2: when every container and init-container image matches a whitelist
\* pattern, the gate exempts the template and the verdict is allowed:true
\* without a message, whatever else the template sets.
C2_WhitelistedImagesAlwaysAllowed ==
    (ReachesGate /\ \A image \in AllImages(TheTemplate) : Matches(image))
    => /\ podSpecIsWhitelisted(TheTemplate, whitelistedImages)
       /\ AllowedSilently

C2_Witness ==
    /\ ReachesGate
    /\ AllImages(TheTemplate) = {ImageWhitelisted1}
    /\ ~NodeRuleApplies(TheTemplate)
    /\ SomePrivileged(TheTemplate.Containers)
    /\ SomePrivileged(TheTemplate.InitContainers)
    /\ TheTemplate.HostNetwork
    /\ TheObject.Namespace \notin AnnotatedNamespaces
    /\ AllowedSilently

\* C3: without a master/infra node selector and without a master-/infra-
\* node name, the gate exempts a template exactly when every image of its
\* containers and init containers matches a pattern; no image at all counts
\* as every image matching.
C3_ExemptIffEveryImageMatches ==
    (ReachesGate /\ ~NodeRuleApplies(TheTemplate))
    => /\ podSpecIsWhitelisted(TheTemplate, whitelistedImages)
            <=> (\A image \in AllImages(TheTemplate) : Matches(image))
       /\ AllImages(TheTemplate) = {} => AllowedSilently

\* A whitelisted container and one init container that is not whitelisted.
C3_Witness ==
    /\ ReachesGate
    /\ ~NodeRuleApplies(TheTemplate)
    /\ Len(TheTemplate.Containers) = 1
    /\ TheTemplate.Containers[1].Image = ImageWhitelisted1
    /\ Matches(ImageWhitelisted1)
    /\ Len(TheTemplate.InitContainers) = 1
    /\ TheTemplate.InitContainers[1].Image = ImageRegular
    /\ TheTemplate.InitContainers[1].Privileged = "true"
    /\ ~podSpecIsWhitelisted(TheTemplate, whitelistedImages)
    /\ Denied

\* C4: a master/infra node selector set to "true", or a node name that
\* starts with master- or infra-, exempts the template whatever its images
\* are, and the verdict is allowed:true.
C4_NodeRulesExempt ==
    (ReachesGate /\ NodeRuleApplies(TheTemplate))
    => /\ podSpecIsWhitelisted(TheTemplate, whitelistedImages)
       /\ AllowedSilently

C4_Witness ==
    /\ ReachesGate
    /\ HasPrefix(TheTemplate.NodeName, InfraPrefix)
    /\ TheTemplate.NodeSelector.isNil
    /\ AllImages(TheTemplate) = {ImageRegular}
    /\ ~Matches(ImageRegular)
    /\ SomePrivileged(TheTemplate.Containers)
    /\ AllowedSilently

(***************************************************************************)
(* Properties of the policy-object entry point.                            *)
(***************************************************************************)
TheRequest == exchange.request.Body.Request

\* A create or update that carries a decoded policy object.
CarriesPolicy ==
    /\ Served("handleSCC")
    /\ EnvelopeOK(exchange.request)
    /\ TheRequest.Operation # "DELETE"
    /\ ~TheRequest.Object.decodeErr
    /\ TheObject.Kind = "SecurityContextConstraints"

Candidate == TheObject.value

\* The guard runs: the candidate's name is in the protected set.
GuardRuns == CarriesPolicy /\ Candidate.ObjectMeta.Name \in DOMAIN protectedSCCs

Protected == protectedSCCs[Candidate.ObjectMeta.Name]

LabelIntact == <<OwnedBySyncPod, "true">> \in Candidate.ObjectMeta.Labels

OtherFieldNames == DOMAIN Protected \ {"Users", "Groups", "ObjectMeta"}

OtherFieldsEqual == \A f \in OtherFieldNames : Candidate[f] = Protected[f]

Elems(seq) == {seq[i] : i \in 1..Len(seq)}

\* list is full with exactly its element x taken out.
RemovedOne(full, list, x) ==
    \E i \in 1..Len(full) :
        /\ full[i] = x
        /\ list = [j \in 1..(Len(full) - 1) |-> IF j < i THEN full[j] ELSE full[j + 1]]

\* C5: a candidate that takes exactly one user, or exactly one group, out of
\* a protected template and changes nothing else, label intact, gets
\* exactly one violation, the removal of that principal, and is denied.
C5_SingleRemovalNamed ==
    (GuardRuns /\ LabelIntact /\ OtherFieldsEqual)
    => /\ \A u \in Elems(Protected.Users.elems) :
            ( /\ RemovedOne(Protected.Users.elems, Candidate.Users.elems, u)
              /\ Candidate.Groups.elems = Protected.Groups.elems )
            => (Denied /\ Violations = <<RemovalOfUser(u)>>)
       /\ \A g \in Elems(Protected.Groups.elems) :
            ( /\ RemovedOne(Protected.Groups.elems, Candidate.Groups.elems, g)
              /\ Candidate.Users.elems = Protected.Users.elems )
            => (Denied /\ Violations = <<RemovalOfGroup(g)>>)

\* The middle one of hostmount-anyuid's three users is taken out.
C5_Witness ==
    /\ GuardRuns /\ LabelIntact /\ OtherFieldsEqual
    /\ Len(Protected.Users.elems) = 3
    /\ RemovedOne(Protected.Users.elems, Candidate.Users.elems, Protected.Users.elems[2])
    /\ Candidate.Groups.elems = Protected.Groups.elems
    /\ Denied
    /\ Violations = <<RemovalOfUser(Protected.Users.elems[2])>>

\* C6: a candidate whose users and groups hold every user and group of the
\* protected template, with the other fields equal and the label intact,
\* gets no violation and is allowed; so for every protected template.
C6_SupersetAllowed ==
    ( /\ GuardRuns /\ LabelIntact /\ OtherFieldsEqual
      /\ Elems(Protected.Users.elems) \subseteq Elems(Candidate.Users.elems)
      /\ Elems(Protected.Groups.elems) \subseteq Elems(Candidate.Groups.elems) )
    => AllowedSilently

\* A user and a group are added to a template that names no user.
C6_Witness ==
    /\ GuardRuns /\ LabelIntact /\ OtherFieldsEqual
    /\ Protected.Users.isNil
    /\ Candidate.Users = Slice(<<ExtraPrincipal>>)
    /\ Elems(Protected.Groups.elems) # {}
    /\ Elems(Protected.Groups.elems) \subseteq Elems(Candidate.Groups.elems)
    /\ ExtraPrincipal \in Elems(Candidate.Groups.elems)
    /\ Candidate.ObjectMeta.ResourceVersion # ""
    /\ AllowedSilently

\* C7: the generic violation is reported once when some field other than
\* users, groups and metadata differs from the protected template, however
\* many differ, and not at all when none does.
C7_GenericViolationIffOtherFieldDiffers ==
    GuardRuns
    => Count(Violations, ModificationError) = IF OtherFieldsEqual THEN 0 ELSE 1

\* Two other fields differ, and so do users, groups and metadata.
C7_Witness ==
    /\ GuardRuns
    /\ Candidate.AllowPrivilegedContainer # Protected.AllowPrivilegedContainer
    /\ Candidate.Priority # Protected.Priority
    /\ Candidate.Users.elems # Protected.Users.elems
    /\ Candidate.ObjectMeta.ResourceVersion # ""
    /\ Count(Violations, ModificationError) = 1

\* C8: a candidate for a protected template whose ownership label is absent
\* or not "true" gets the label violation and is denied, also when nothing
\* else differs from the template.
C8_LabelGated ==
    (GuardRuns /\ ~LabelIntact)
    => (Denied /\ Count(Violations, LabelError) = 1)

\* The label is absent and nothing else differs.
C8_Witness ==
    /\ GuardRuns
    /\ MapGet(Candidate.ObjectMeta.Labels, OwnedBySyncPod) = ""
    /\ OtherFieldsEqual
    /\ Candidate.Users.elems = Protected.Users.elems
    /\ Candidate.Groups.elems = Protected.Groups.elems
    /\ Denied
    /\ Violations = <<LabelError>>

\* C9: a delete request gets allowed:false when its name is in the
\* protected set and allowed:true when it is not, whatever object it
\* carries, decodable or not.
C9_DeleteDecidedByName ==
    (Served("handleSCC") /\ EnvelopeOK(exchange.request) /\ TheRequest.Operation = "DELETE")
    => /\ TheResponse.status = StatusOK
       /\ TheRequest.Name \in DOMAIN protectedSCCs => Denied
       /\ TheRequest.Name \notin DOMAIN protectedSCCs => AllowedSilently

\* A protected name is deleted with an object that cannot be decoded.
C9_Witness ==
    /\ Served("handleSCC") /\ EnvelopeOK(exchange.request)
    /\ TheRequest.Operation = "DELETE"
    /\ TheRequest.Name \in DOMAIN protectedSCCs
    /\ TheRequest.Object.decodeErr
    /\ Denied

\* C10: a create or update of a policy object whose name is not in the
\* protected set gets no violation and allowed:true, whatever it holds.
C10_UnprotectedAllowed ==
    (CarriesPolicy /\ Candidate.ObjectMeta.Name \notin DOMAIN protectedSCCs)
    => AllowedSilently

\* No label, a changed field and dropped principals under a free name.
C10_Witness ==
    /\ CarriesPolicy
    /\ Candidate.ObjectMeta.Name \notin DOMAIN protectedSCCs
    /\ MapGet(Candidate.ObjectMeta.Labels, OwnedBySyncPod) # "true"
    /\ Candidate.AllowPrivilegedContainer
    /\ Candidate.Users.isNil
    /\ AllowedSilently

(***************************************************************************)
(* Properties of the decision synthesizer.                                 *)
(***************************************************************************)
\* The evaluator runs on the request: the gate is reached and the provider
\* can be built for the object's namespace.
EvaluatorRuns ==
    /\ ReachesGate
    /\ ~validatePodAgainstSCC([Spec |-> TheTemplate], TheObject.Namespace).err

\* The violations the evaluator or the guard produced for the request.
Produced ==
    IF Served("handleWhitelist")
    THEN validatePodAgainstSCC([Spec |-> TheTemplate], TheObject.Namespace).errs
    ELSE verifySCC(Candidate, Protected).errs

\* C11: the verdict is allowed:true with an empty message exactly when the
\* evaluator or guard produced no violation; otherwise it is allowed:false
\* and the message holds every produced violation, in the order produced,
\* none merged with an equal one or dropped, with a separator between
\* every two.
C11_MessageHoldsEveryViolationInOrder ==
    (EvaluatorRuns \/ GuardRuns)
    => /\ TheResponse.status = StatusOK
       /\ TheResponse.review.present
       /\ Allowed <=> Produced = <<>>
       /\ Allowed => TheResponse.review.Result.Message = <<>>
       /\ Denied => /\ Violations = Produced
                    /\ Len(TheResponse.review.Result.Message) = 2 * Len(Produced) - 1

\* Three privileged containers on the host network: four violations, three
\* of them with the same text at different paths.
C11_Witness ==
    /\ EvaluatorRuns
    /\ Denied
    /\ Len(Produced) = 4
    /\ Produced[1].detail = Produced[2].detail
    /\ Produced[1] # Produced[2]
    /\ Violations = Produced

(***************************************************************************)
(* Properties of the request checks.                                       *)
(***************************************************************************)
\* A workload request that decodes to an object of a kind the unpackers
\* table does not hold.
UnrecognizedKind ==
    /\ Served("handleWhitelist")
    /\ EnvelopeOK(exchange.request)
    /\ TheRequest.UID # "" /\ TheRequest.Kind.Version # "" /\ TheRequest.Kind.Kind # ""
    /\ ~TheRequest.Object.decodeErr
    /\ TheObject.Kind \notin UnpackerKinds

\* C12: a workload request of an unrecognized kind gets no verdict and is
\* answered with a not-implemented (or internal) error: the handler ends
\* with that answer written.
C12_UnrecognizedKindAnsweredWithError ==
    UnrecognizedKind
    => /\ ~TheResponse.review.present
       /\ TheResponse.status \in {StatusInternalServerError, StatusNotImplemented}
       /\ ~TheResponse.panicked

\* C13: handleWhitelist answers a malformed request with the status of its
\* first defect and writes no verdict: 405 for a method other than POST,
\* else 415 for a content type other than application/json, else 400 for a
\* body that is not JSON, else 400 for a review whose UID, kind version or
\* kind name is empty.
C13_MalformedRejectedWithItsStatus ==
    Served("handleWhitelist")
    => LET r == exchange.request
       IN  /\ r.Method # "POST" => TheResponse = HttpError(StatusMethodNotAllowed)
           /\ (r.Method = "POST" /\ r.ContentType # "application/json")
              => TheResponse = HttpError(StatusUnsupportedMediaType)
           /\ (r.Method = "POST" /\ r.ContentType = "application/json" /\ ~r.Body.decodable)
              => TheResponse = HttpError(StatusBadRequest)
           /\ ( /\ EnvelopeOK(r)
                /\ \/ TheRequest.UID = ""
                   \/ TheRequest.Kind.Version = ""
                   \/ TheRequest.Kind.Kind = "" )
              => TheResponse = HttpError(StatusBadRequest)

\* A GET with the wrong content type, around a pod that would be denied.
C13_Witness ==
    /\ Served("handleWhitelist")
    /\ exchange.request.Method = "GET"
    /\ exchange.request.ContentType # "application/json"
    /\ SomePrivileged(exchange.request.Body.Request.Object.obj.Spec.Containers)
    /\ TheResponse = HttpError(StatusMethodNotAllowed)

(***************************************************************************)
(* Properties of the evaluator's use.                                      *)
(***************************************************************************)
\* T asks for nothing that P forbids, in the dimensions the evaluator of
\* this model decides.
Compliant(T, P) ==
    /\ P.AllowPrivilegedContainer \/ ~SomePrivileged(T.Containers \o T.InitContainers)
    /\ P.AllowHostNetwork \/ ~T.HostNetwork

\* C14: a template that the gate does not exempt and that complies with the
\* baseline policy, in a namespace that carries the annotations, gets no
\* violation and the verdict allowed:true.
C14_CompliantTemplateAllowed ==
    ( /\ ReachesGate
      /\ ~podSpecIsWhitelisted(TheTemplate, whitelistedImages)
      /\ TheObject.Namespace \in AnnotatedNamespaces
      /\ Compliant(TheTemplate, restricted) )
    => AllowedSilently

\* One container with an image no pattern matches and no privileged flag.
C14_Witness ==
    /\ ReachesGate
    /\ TheObject.Kind = "Pod"
    /\ whitelistedImages # <<>>
    /\ TheTemplate.Containers = <<[Image |-> ImageRegular, Privileged |-> "nil"]>>
    /\ TheTemplate.InitContainers = <<>>
    /\ ~podSpecIsWhitelisted(TheTemplate, whitelistedImages)
    /\ TheObject.Namespace \in AnnotatedNamespaces
    /\ AllowedSilently

(***************************************************************************)
(* Properties of the guard's collection of violations.                     *)
(***************************************************************************)
\* The positions of the template's principals that the candidate lacks.
MissingAt(full, list) == {i \in 1..Len(full) : full[i] \notin Elems(list)}

FirstMissing(full, list) ==
    full[CHOOSE i \in MissingAt(full, list) : \A j \in MissingAt(full, list) : i <= j]

\* The violations of the verdict that report a removed user, or group.
UserRemovals == SelectSeq(Violations, LAMBDA v : v.text = RemovalOfUser("").text)
GroupRemovals == SelectSeq(Violations, LAMBDA v : v.text = RemovalOfGroup("").text)

\* C15: however many users of the protected template a candidate lacks, the
\* guard reports the removal of one, the first lacking in the template's
\* order; likewise for groups; so at most one user removal and at most one
\* group removal per call.
C15_FirstMissOnly ==
    GuardRuns
    => /\ UserRemovals =
            IF MissingAt(Protected.Users.elems, Candidate.Users.elems) = {} THEN <<>>
            ELSE <<RemovalOfUser(FirstMissing(Protected.Users.elems, Candidate.Users.elems))>>
       /\ GroupRemovals =
            IF MissingAt(Protected.Groups.elems, Candidate.Groups.elems) = {} THEN <<>>
            ELSE <<RemovalOfGroup(FirstMissing(Protected.Groups.elems, Candidate.Groups.elems))>>

\* Two of the template's three groups and two of its five users are gone.
C15_Witness ==
    /\ GuardRuns
    /\ Len(Protected.Groups.elems) = 3
    /\ MissingAt(Protected.Groups.elems, Candidate.Groups.elems) = {1, 3}
    /\ MissingAt(Protected.Users.elems, Candidate.Users.elems) = {2, 4}
    /\ GroupRemovals = <<RemovalOfGroup(Protected.Groups.elems[1])>>
    /\ UserRemovals = <<RemovalOfUser(Protected.Users.elems[2])>>

\* 1 for a check that fails, 0 for one that passes.
Fails(failed) == IF failed THEN 1 ELSE 0

UsersCheckFails == MissingAt(Protected.Users.elems, Candidate.Users.elems) # {}
GroupsCheckFails == MissingAt(Protected.Groups.elems, Candidate.Groups.elems) # {}

\* C16: each of the guard's four checks (users, groups, other fields,
\* ownership label) puts its one violation in the verdict when it fails,
\* whatever the other checks find, and none when it passes: a candidate
\* that fails k of them gets exactly k violations.
C16_FourChecksAllCollected ==
    GuardRuns
    => /\ Count(Violations, LabelError) = Fails(~LabelIntact)
       /\ Len(GroupRemovals) = Fails(GroupsCheckFails)
       /\ Len(UserRemovals) = Fails(UsersCheckFails)
       /\ Count(Violations, ModificationError) = Fails(~OtherFieldsEqual)
       /\ Len(Violations) = Fails(~LabelIntact) + Fails(GroupsCheckFails)
                              + Fails(UsersCheckFails) + Fails(~OtherFieldsEqual)

\* All four checks fail.
C16_Witness ==
    /\ GuardRuns
    /\ ~LabelIntact /\ GroupsCheckFails /\ UsersCheckFails /\ ~OtherFieldsEqual
    /\ Denied
    /\ Len(Violations) = 4

(***************************************************************************)
(* Properties of the correlation identifier.                               *)
(***************************************************************************)
Answered(c) == inflight[c].pc = "answered"

HasVerdict(c) == Answered(c) /\ inflight[c].response.review.present

\* C17: every verdict carries the UID of the request it answers, for
\* workload and policy-object requests, allowed or denied, whatever other
\* requests with other UIDs are being served at the same time.
C17_VerdictCarriesRequestUID ==
    \A c \in Connections :
        HasVerdict(c)
        => inflight[c].response.review.UID = inflight[c].request.Body.Request.UID

\* A workload request that is denied and a policy-object request that is
\* allowed, with different UIDs, answered while both are in flight.
C17_Witness ==
    \E c, d \in Connections :
        /\ HasVerdict(c) /\ HasVerdict(d)
        /\ inflight[c].handler = "handleWhitelist"
        /\ inflight[d].handler = "handleSCC"
        /\ ~inflight[c].response.review.Allowed
        /\ inflight[d].response.review.Allowed
        /\ inflight[c].request.Body.Request.UID = "uid"
        /\ inflight[d].request.Body.Request.UID = "uid-2"
        /\ inflight[c].response.review.UID = "uid"
        /\ inflight[d].response.review.UID = "uid-2"

(***************************************************************************)
(* Properties of the failures that are not verdicts.                       *)
(***************************************************************************)
\* The gate does not exempt the request's template and the provider cannot
\* be built for the object's namespace.
ProviderFails ==
    /\ ReachesGate
    /\ ~podSpecIsWhitelisted(TheTemplate, whitelistedImages)
    /\ CreateProviderFromConstraint(TheObject.Namespace, restricted).err

\* C18: when the provider cannot be built for a request the gate does not
\* exempt, the request ends with status 500 and no verdict, neither
\* allowed:true nor a denial.
C18_ProviderErrorIsInternalError ==
    ProviderFails => TheResponse = HttpError(StatusInternalServerError)

\* A template that would be allowed and one that would be denied, had the
\* provider been built: here the second.
C18_Witness ==
    /\ ProviderFails
    /\ TheObject.Kind = "DaemonSet"
    /\ SomePrivileged(TheTemplate.Containers)
    /\ TheResponse.status = StatusInternalServerError
    /\ ~TheResponse.review.present

\* C19: every entry point, handleSCC included, answers a request whose UID
\* is empty with a transport-level error and writes no verdict for it.
C19_EmptyUIDRejectedEverywhere ==
    (exchange.served /\ EnvelopeOK(exchange.request) /\ TheRequest.UID = "")
    => /\ ~TheResponse.review.present
       /\ TheResponse.status \in {StatusBadRequest, StatusUnsupportedMediaType}

(***************************************************************************)
(* Properties of the normalizer.                                           *)
(***************************************************************************)
\* What the unpackers table returns for the request's object.
Unpacked == unpackers(TheObject.Kind, TheObject)

\* The kinds that keep the template at spec.template.
SpecTemplateKinds ==
    {"DaemonSet", "ReplicaSet", "StatefulSet", "Job", "DeploymentConfig", "Deployment"}

\* C20: for each of the eight kinds the normalizer returns the template at
\* the kind's one location (Pod: its spec; CronJob:
\* jobTemplate.spec.template; the others: spec.template) and the namespace
\* of the enclosing object, the containers and init containers being those
\* of the source, element for element; and the answer is the one the
\* check of that template in that namespace gives.
C20_NormalizerReadsCanonicalLocation ==
    ReachesGate
    => /\ TheObject.Kind = "Pod" => Unpacked.spec = TheObject.Spec
       /\ TheObject.Kind = "CronJob"
          => Unpacked.spec = TheObject.Spec.JobTemplate.Spec.Template.Spec
       /\ TheObject.Kind \in SpecTemplateKinds
          => Unpacked.spec = TheObject.Spec.Template.Spec
       /\ Unpacked.namespace = TheObject.Namespace
       /\ Unpacked.spec.Containers = TheTemplate.Containers
       /\ Unpacked.spec.InitContainers = TheTemplate.InitContainers
       /\ TheResponse = checkPodSpec(TheTemplate, Unpacked.meta, TheObject.Namespace,
                                     TheRequest.UID)

\* A CronJob whose template holds two different containers and an init
\* container: the verdict names the second container and the init
\* container at their places.
C20_Witness ==
    /\ ReachesGate
    /\ TheObject.Kind = "CronJob"
    /\ TheObject.Namespace \in AnnotatedNamespaces
    /\ Len(Unpacked.spec.Containers) = 2
    /\ Unpacked.spec.Containers[1] = [Image |-> ImageWhitelisted1, Privileged |-> "nil"]
    /\ Unpacked.spec.Containers[2] = [Image |-> ImageRegular, Privileged |-> "true"]
    /\ Len(Unpacked.spec.InitContainers) = 1
    /\ Unpacked.spec.InitContainers[1].Privileged = "true"
    /\ Violations = <<PrivilegedViolation("containers", 1),
                       PrivilegedViolation("initContainers", 0)>>

(***************************************************************************)
(* Properties of pattern matching.                                         *)
(***************************************************************************)
Fold(str) == [k \in 1..Len(str) |-> ToLower(str[k])]

\* The pattern's text equals the whole string, letter case ignored.
WholeStringIgnoringCase(rx, str) == Fold(rx.lit) = Fold(str)

\* The pattern's text occurs in the string where the pattern's anchors let
\* it, letter case ignored only under the pattern's own flag.
AsWritten(rx, str) ==
    \E a \in 1..(Len(str) + 1) :
        LET b == a + Len(rx.lit) - 1
        IN  /\ b <= Len(str)
            /\ rx.anchorStart => a = 1
            /\ rx.anchorEnd => b = Len(str)
            /\ IF rx.foldCase THEN Fold(SubSeq(str, a, b)) = Fold(rx.lit)
                              ELSE SubSeq(str, a, b) = rx.lit

\* C21 as stated: the gate exempts a template exactly when every image is,
\* letter case ignored, the whole text of some pattern.
C21_WholeStringIgnoringCase ==
    (ReachesGate /\ ~NodeRuleApplies(TheTemplate))
    => ( podSpecIsWhitelisted(TheTemplate, whitelistedImages)
         <=> \A image \in AllImages(TheTemplate) :
               \E i \in 1..Len(whitelistedImages) :
                  WholeStringIgnoringCase(whitelistedImages[i], image) )

\* C21 as amended: the gate exempts a template exactly when every image is
\* matched by some pattern as the pattern is written: anywhere in the
\* image unless the pattern is anchored, letter case respected unless the
\* pattern sets (?i); an exempt template is allowed.
C21_MatchesAsThePatternIsWritten ==
    (ReachesGate /\ ~NodeRuleApplies(TheTemplate))
    => /\ podSpecIsWhitelisted(TheTemplate, whitelistedImages)
          <=> \A image \in AllImages(TheTemplate) :
                \E i \in 1..Len(whitelistedImages) : AsWritten(whitelistedImages[i], image)
       /\ podSpecIsWhitelisted(TheTemplate, whitelistedImages) => AllowedSilently

\* An unanchored pattern whitelists a privileged container whose image
\* merely ends in the pattern's text.
C21_Witness ==
    /\ ReachesGate
    /\ whitelistedImages = <<Unanchored(ImageWhitelisted1)>>
    /\ TheTemplate.Containers = <<[Image |-> ImageRegular, Privileged |-> "true"]>>
    /\ TheTemplate.InitContainers = <<>>
    /\ AllowedSilently

(***************************************************************************)
(* Properties of requests served at the same time.                         *)
(***************************************************************************)
\* The response a request gets when it is the only one the server handles.
AnsweredAlone(handler, r) ==
    IF handler = "handleWhitelist" THEN handleWhitelist(r) ELSE handleSCC(r)

Evaluated == EvaluatorRuns /\ ~podSpecIsWhitelisted(TheTemplate, whitelistedImages)

C25_NothingAfterNotImplemented ==
    UnrecognizedKind
    => /\ TheResponse = HttpError(StatusNotImplemented)
       /\ ~exchange.objects.built

\* The server decoded the body as JSON and found no request in it: the body
\* is null, or an object without the request member.
NoRequestCarried ==
    /\ exchange.served
    /\ exchange.request.Method = "POST"
    /\ exchange.request.ContentType = "application/json"
    /\ exchange.request.Body.decodable
    /\ exchange.request.Body.null \/ ~exchange.request.Body.Request.present

\* C26: a body that is JSON and carries no request is answered by both
\* handlers with an error status and no verdict; the handler does not fail
\* on reading a field of the request that is not there.
C26_AbsentRequestAnsweredWithError ==
    NoRequestCarried
    => /\ ~TheResponse.panicked
       /\ TheResponse.status \in {StatusBadRequest, StatusMethodNotAllowed,
                                   StatusUnsupportedMediaType,
                                   StatusInternalServerError, StatusNotImplemented}
       /\ ~TheResponse.review.present

\* The violation a check reports when it fails, none when it passes.
IfFails(failed, violation) == IF failed THEN <<violation>> ELSE <<>>

\* C27: the violations of one call of verifySCC stand in the verdict in the
\* order label, group removal, user removal, other fields, each present
\* exactly when its check fails.
C27_ViolationsInFixedOrder ==
    GuardRuns
    => Violations =
          IfFails(~LabelIntact, LabelError)
          \o IfFails(GroupsCheckFails,
                     RemovalOfGroup(FirstMissing(Protected.Groups.elems, Candidate.Groups.elems)))
          \o IfFails(UsersCheckFails,
                     RemovalOfUser(FirstMissing(Protected.Users.elems, Candidate.Users.elems)))
          \o IfFails(~OtherFieldsEqual, ModificationError)

\* A group and a user are gone and nothing else is wrong: the group comes
\* first.
C27_Witness ==
    /\ GuardRuns
    /\ LabelIntact /\ OtherFieldsEqual
    /\ GroupsCheckFails /\ UsersCheckFails
    /\ Len(Violations) = 2
    /\ Violations[1].text = RemovalOfGroup("").text
    /\ Violations[2].text = RemovalOfUser("").text

(***************************************************************************)
(* Properties of the bootstrap goroutine.                                  *)
(***************************************************************************)
\* The pod has a condition of type Ready whose status is True.
ReportsReady(pod) ==
    \E j \in 1..Len(pod.Conditions) :
        pod.Conditions[j].Type = "Ready" /\ pod.Conditions[j].Status = "True"

ThreeReadyPodsListed ==
    /\ Len(cluster.pods) = 3
    /\ \A i \in 1..3 : ReportsReady(cluster.pods[i])

OneServiceListed == cluster.services = 1

SetupDone == setup.pc = "done"

\* C28: when the pod listing comes to show three ready pods and the service
\* listing comes to show one service, and no call of the API fails, the
\* goroutine gets through both wait loops and both creations to
\* "Setup: done."
C28_SetupReachesDone ==
    (<>[]ThreeReadyPodsListed /\ <>[]OneServiceListed /\ [](setup.pc # "fatal"))
    => <>SetupDone

\* The goroutine has found the pods ready: it is past the check of the
\* first wait loop.
PastReadinessGate == setup.pc \notin {"waitPods", "fatal"} \/ setup.pods # <<>>

\* C29: the goroutine gets past the readiness check only on a listing of
\* exactly three pods each of which has a Ready condition with status True.
C29_GatePassedOnlyOnThreeReadyPods ==
    PastReadinessGate
    => /\ Len(setup.pods) = 3
       /\ \A i \in 1..Len(setup.pods) : ReportsReady(setup.pods[i])

(***************************************************************************)
(* Properties of the routing.                                              *)
(***************************************************************************)
\* The request is one the API server sends under a rule of a registered
\* webhook: to the webhook's path, for a group, version and resource of the
\* rule, for one of its operations, with the kind of that resource.
SentUnderRule ==
    /\ exchange.served
    /\ \E i \in DOMAIN initializeValidatingWebhookConfiguration :
         LET hook == initializeValidatingWebhookConfiguration[i]
         IN  /\ exchange.request.Path = hook.ServicePath
             /\ TheRequest.Resource.Group \in Elems(hook.APIGroups)
             /\ TheRequest.Resource.Version \in Elems(hook.APIVersions)
             /\ TheRequest.Resource.Resource \in Elems(hook.Resources)
             /\ TheRequest.Operation \in Elems(hook.Operations)
    /\ TheRequest.SubResource = ""
    /\ TheRequest.UID # ""
    /\ TheRequest.Kind = GVK(TheRequest.Resource.Group, TheRequest.Resource.Version,
                             KindOfResource(TheRequest.Resource.Resource))

\* C30: a request sent under a rule of a registered webhook finds a handler
\* of a kind at its path, the handler expects the request's kind and
\* resource, so its check does not reject the request; /deploymentconfigs
\* has the handler of deployment configs.
C30_RegisteredRulesReachTheirHandler ==
    SentUnderRule
    => /\ exchange.handler \in KindHandlers
       /\ Expects(exchange.handler).Resource = TheRequest.Resource
       /\ Expects(exchange.handler).Kind = TheRequest.Kind
       /\ ~FieldMismatch(exchange.handler, TheRequest)
       /\ TheResponse # HttpError(StatusBadRequest)
       /\ (exchange.request.Path = "/deploymentconfigs"
           => exchange.handler = "handleDeploymentConfig")

\* An update of a deployment config, sent under its rule.
C30_Witness ==
    /\ SentUnderRule
    /\ exchange.request.Path = "/deploymentconfigs"
    /\ TheRequest.Resource = GVR("apps", "v1", "deploymentconfigs")
    /\ TheRequest.Operation = "UPDATE"
    /\ exchange.handler = "handleDeploymentConfig"
    /\ ~FieldMismatch(exchange.handler, TheRequest)

=============================================================================
